---- MODULE Spec2Model ----
(***************************************************************************)
(* WALKOFF workflow execution engine (walkoff/executiondb/workflow.py) and *)
(* the executor front end (multiprocessedexecutor.py).                     *)
(*                                                                         *)
(* Identifiers are small integers: 0 is Python's None, 1..NumActions are   *)
(* the ids of the workflow's actions, OtherId is an id that names no       *)
(* action, and the ids of the branches follow.                             *)
(***************************************************************************)
EXTENDS Integers, Sequences, FiniteSets, TLC

\* ------------------------------------------------------------- bounds
NumActions == 2          \* actions of the workflow
NumBranches == 2         \* branches of the workflow
MaxPriority == 2         \* branch priorities are 1..MaxPriority
NumDevices == 1          \* devices an action can be bound to
MaxSteps == 2            \* node invocations followed in one execute call
NumExecIds == 1          \* execution ids
NumWorkers == 2          \* worker processes of the pool
NumCallers == 2          \* front-end requests served at the same time
MaxCtrl == 1             \* control messages waiting in the dispatcher
MaxQueue == 2            \* execute requests waiting in the dispatcher
MaxConditions == 2       \* leaf conditions of one expression
MaxChildren == 1         \* child expressions of the root expression
MaxTransforms == 2       \* transforms of one condition
MaxData == 1             \* the data values are 0..MaxData
MaxArguments == 2        \* arguments of one execute-workflow message
MaxSelection == 2        \* elements of the selection of an argument
MaxSent == 4             \* messages the sender puts on its socket
NumRuns == 2             \* executions whose events reach the receiver
MaxResults == 2          \* messages on the results socket beyond the end events
MaxPolls == 2            \* polls of wait_and_reset before its timeout

NoneId == 0
ActionIds == 1..NumActions
OtherId == NumActions + 1
NodeIds == ActionIds \cup {OtherId}
BranchIdx == 1..NumBranches
BranchId(i) == OtherId + i
Priorities == 1..MaxPriority
NoResult == 0
Devices == 1..NumDevices
ExecIds == 1..NumExecIds
Workers == 1..NumWorkers
Callers == 1..NumCallers

VARIABLES
    start,              \* Workflow.start
    branches,           \* Workflow.branches: sequence of [source_id, destination_id, priority]
    is_valid,           \* Workflow.is_valid
    _is_paused,         \* Workflow._is_paused
    _abort,             \* Workflow._abort
    _accumulator,       \* Workflow._accumulator: set of <<key, value>>
    _execution_id,      \* Workflow._execution_id (0 is 'default')
    _executing_action,  \* Workflow._executing_action (id)
    instances,          \* app instances held by Workflow._instance_repo
    pc,                 \* position of the execute call
    start_arguments,    \* __execute's local start_arguments (TRUE: supplied)
    last_result,        \* __execute's local last_result
    truth,              \* what each branch expression evaluates to at this visit
    pending,            \* get_branch: the sorted branches not yet evaluated
    outcome,            \* what execute returned: [kind, value]
    abort_at,           \* history: the invocation during which abort() was called (0: none)
    log,                \* what the call has done so far, in order
    status,             \* WorkflowStatus.status by execution id ("none": no record)
    saved,              \* SavedWorkflow.action_id by execution id
    queue,              \* the execute requests handed to manager.add_workflow
    ctrl,               \* the control messages handed to the manager
    worker,             \* the execution each worker holds (0: idle)
    wpause,             \* the worker's engine has its pause flag set
    wabort,             \* the worker's engine has its abort flag set
    rpc,                \* resume_workflow calls between their query and their submit
    ret,                \* what the latest executor call did and returned
    next_id,            \* the next uuid4 of execute_workflow
    wf_eid,             \* _execution_id of the workflow object the executor handles
    actions,            \* Workflow.actions: the ids of the workflow's actions
    child_workflows,    \* Workflow.child_workflows: the ids of the nested workflows
    errors,             \* Workflow.errors: [validated, list]
    expr,               \* the ConditionalExpression that is executed
    expr_result,        \* what ConditionalExpression.execute did: [done, result, trace, events]
    condition,          \* the Condition that is executed, with what its collaborators do
    cond_data_in,       \* the data_in Condition.execute is called with
    cond_result,        \* what Condition.execute did: [done, result, events, invoked, calls]
    arguments,          \* the Arguments handed to _add_arguments_to_proto
    packet,             \* the arguments of the ExecuteWorkflowMessage: [done, arguments]
    arg_data,           \* the dict ArgumentSchema loads
    arg_valid,          \* what validate_argument did with it
    comm_socket,        \* what ZmqWorkflowCommunicationSender sent on comm_socket
    sender,             \* the latest call of the sender: [op, eid, calls]
    results_sock,       \* the messages on ZmqWorkflowResultsReceiver.results_sock
    workflows_executed, \* ZmqWorkflowResultsReceiver.workflows_executed
    runs,               \* how each execution stands: running, paused, aborted, completed
    counted,            \* history: how often the receiver counted each execution
    waiter,             \* the call of wait_and_reset: [pc, n, timeout, how]
    receiving,          \* the loop of receive_results is running
    pids,               \* MultiprocessedExecutor.pids: each worker process, alive or exited
    signals,            \* history: the Exit broadcast and the signals shutdown_pool sent
    pool,               \* the call of shutdown_pool: [pc, i, alive]
    app_apis,           \* what the hash 'app-apis' of the cache holds for the app
    api_call            \* the latest lookup in apiutil: [done, fn, outcome]

vars == <<start, branches, is_valid, _is_paused, _abort, _accumulator, _execution_id,
          _executing_action, instances, pc, start_arguments, last_result, truth,
          pending, outcome, abort_at, log, status, saved, queue, ctrl, worker, wpause,
          wabort, rpc, ret, next_id, wf_eid, actions, child_workflows, errors, expr,
          expr_result, condition, cond_data_in, cond_result, arguments, packet, arg_data,
          arg_valid, comm_socket, sender, results_sock, workflows_executed, runs,
          counted, waiter, receiving, pids, signals, pool,
          app_apis, api_call>>

\* the condition that is executed on its own, and what its execution did
conditionVars == <<condition, cond_data_in, cond_result>>

\* the arguments that are loaded and encoded on their own
argumentVars == <<arguments, packet, arg_data, arg_valid>>

\* the socket of the communication sender and its latest call
senderVars == <<comm_socket, sender>>

\* the results receiver, the runs that send to it, and the caller that waits
receiverVars == <<results_sock, workflows_executed, runs, counted, waiter, receiving>>

\* what no action of the engine, the executor, the validator or the expression
\* evaluator touches
\* the worker processes and the call that shuts them down
poolVars == <<pids, signals, pool>>

\* the components that are run on their own, each in a specification of its own
\* the cache of app apis and the lookup in it
apiVars == <<app_apis, api_call>>

lastVars == <<poolVars, apiVars>>

\* what no action of the engine, the executor, the validator or the expression
\* evaluator touches
laterVars == <<conditionVars, argumentVars, senderVars, receiverVars, lastVars>>

\* the state of the validator and of the expression evaluator on their own
pureVars == <<actions, child_workflows, errors, expr, expr_result, laterVars>>

dispatchVars == <<status, saved, queue, ctrl, worker, wpause, wabort, rpc, ret, next_id,
                  wf_eid>>

engineVars == <<start, branches, is_valid, _is_paused, _abort, _accumulator, _execution_id,
                _executing_action, instances, pc, start_arguments, last_result, truth,
                pending, outcome, abort_at, log, pureVars>>

\* the fields and locals of a run
runVars == <<_is_paused, _abort, _accumulator, _execution_id, _executing_action, instances,
             pc, start_arguments, last_result, truth, pending, outcome, abort_at, log>>

\* the workflow is not changed by its execution, and the executor's state is not
\* touched by the engine
workflowVars == <<start, branches, is_valid, dispatchVars, pureVars>>

\* ------------------------------------------------------------- helpers
\* what execute returned
Outcome(kind, value) == [kind |-> kind, value |-> value]
NoOutcome == Outcome("none", NoResult)

\* one entry of the call's log
Entry(op, id, val, data) == [op |-> op, id |-> id, val |-> val, data |-> data]

\* a key of the accumulator: the UUID of an action or of a branch
Uuid(id) == <<"uuid", id>>

\* str(key): the string form of a UUID key
Str(k) == <<"str", k[2]>>

\* the value the accumulator holds for key k (at most one)
AccGet(acc, k) == CHOOSE v \in {p[2] : p \in {q \in acc : q[1] = k}} : TRUE
AccHas(acc, k) == \E p \in acc : p[1] = k
\* an entry that exists is kept: only the first value of a key is stored
AccPut_KeepOld(acc, k, v) == IF AccHas(acc, k) THEN acc ELSE acc \cup {<<k, v>>}

\* acc[k] = v
AccPut(acc, k, v) == {p \in acc : p[1] # k} \cup {<<k, v>>}

\* Workflow.__init__: {branch.id: 0 for branch in self.branches}
InitAccumulator(brs) == {<<Uuid(BranchId(i)), 0>> : i \in 1..Len(brs)}

\* the branch check with the test of the destination left out
RECURSIVE BranchErrors_SourceOnly(_, _, _)
BranchErrors_SourceOnly(acts, brs, i) ==
    IF i > Len(brs) THEN <<>>
    ELSE (IF brs[i].source_id \notin acts
          THEN <<[error |-> "source", branch |-> i, id |-> brs[i].source_id]>>
          ELSE <<>>)
         \o BranchErrors_SourceOnly(acts, brs, i + 1)

\* Workflow.validate lines 74-78: the errors of the branches from the i-th on
RECURSIVE BranchErrors(_, _, _)
BranchErrors(acts, brs, i) ==
    IF i > Len(brs) THEN <<>>
    ELSE (IF brs[i].source_id \notin acts
          THEN <<[error |-> "source", branch |-> i, id |-> brs[i].source_id]>>
          ELSE <<>>)
         \o (IF brs[i].destination_id \notin acts
             THEN <<[error |-> "destination", branch |-> i, id |-> brs[i].destination_id]>>
             ELSE <<>>)
         \o BranchErrors(acts, brs, i + 1)

\* Workflow.validate lines 68-79: the list of errors of a workflow whose actions
\* have the ids acts
Errors(acts, st, brs) ==
    (IF st = NoneId /\ acts # {}
     THEN <<[error |-> "start_required", branch |-> 0, id |-> st]>>
     ELSE IF acts # {} /\ st \notin acts
          THEN <<[error |-> "start", branch |-> 0, id |-> st]>>
          ELSE <<>>)
    \o BranchErrors(acts, brs, 1)

\* Workflow.validate: the list of errors is empty
Validate(st, brs) == Errors(ActionIds, st, brs) = <<>>

\* Workflow.get_action_by_id
get_action_by_id(id) == IF id \in ActionIds THEN id ELSE NoneId

\* Workflow.__get_branches_by_action_id: indices, in list order
RECURSIVE BranchesFrom(_, _, _)
BranchesFrom(brs, id, i) ==
    IF i > Len(brs) THEN <<>>
    ELSE IF brs[i].source_id = id
         THEN <<i>> \o BranchesFrom(brs, id, i + 1)
         ELSE BranchesFrom(brs, id, i + 1)

get_branches_by_action_id(brs, id) == BranchesFrom(brs, id, 1)

\* insert index b after every element whose priority is not greater (stable)
RECURSIVE InsertByPriority(_, _, _)
InsertByPriority(brs, s, b) ==
    IF s = <<>> THEN <<b>>
    ELSE IF brs[Head(s)].priority <= brs[b].priority
         THEN <<Head(s)>> \o InsertByPriority(brs, Tail(s), b)
         ELSE <<b>> \o s

\* sorted(..., key=lambda branch_: branch_.priority): Python's sort is stable
RECURSIVE SortedByPriority(_, _)
SortedByPriority(brs, s) ==
    IF s = <<>> THEN <<>>
    ELSE InsertByPriority(brs, SortedByPriority(brs, SubSeq(s, 1, Len(s) - 1)), s[Len(s)])

\* the branches of the node tried in list order, the sort left out
BranchOrder_ListOrder(brs, id) == get_branches_by_action_id(brs, id)

\* Workflow.get_branch: the order in which the branches of a node are tried
BranchOrder(brs, id) == SortedByPriority(brs, get_branches_by_action_id(brs, id))

\* the accumulator sent as it is, its keys not converted
ShutdownData_RawKeys(acc) == acc

\* Workflow.__shutdown: the payload of the Shutdown event
ShutdownData(acc) == {<<Str(p[1]), p[2]>> : p \in acc}

Invocations(l) == SelectSeq(l, LAMBDA e : e.op = "invoke")

\* ------------------------------------------------------------- ConditionalExpression
\* valid_operators
Operators == {"and", "or", "xor"}

\* the outcomes of condition.execute for the conditions of one expression, in order
ConditionLists == UNION {[1..n -> BOOLEAN] : n \in 0..MaxConditions}

\* an expression without child expressions
LeafExpressions ==
    [operator : Operators, is_negated : BOOLEAN, conditions : ConditionLists,
     child_expressions : {<<>>}]

\* an expression whose child expressions have no children of their own
Expressions ==
    [operator : Operators, is_negated : BOOLEAN, conditions : ConditionLists,
     child_expressions : UNION {[1..n -> LeafExpressions] : n \in 0..MaxChildren}]

\* ConditionalExpression() with the defaults of __init__
DefaultExpression ==
    [operator |-> "and", is_negated |-> FALSE, conditions |-> <<>>,
     child_expressions |-> <<>>]

\* what the execute of one element did: its value and, for a child expression, the
\* elements it executed in turn and the expression events it sent
Executed(kind, index, value, sub, events) ==
    [kind |-> kind, index |-> index, value |-> value, sub |-> sub, events |-> events]

\* the result of an operator: the value and the elements executed for it, in order
Evaluation(result, trace) == [result |-> result, trace |-> trace]

RECURSIVE ConditionalExpression_execute(_)
RECURSIVE ElementExecute(_, _, _)
RECURSIVE all(_, _, _)
RECURSIVE any(_, _, _)
RECURSIVE any_Exhaustive(_, _, _)
RECURSIVE SentBy(_)
RECURSIVE XorLoop(_, _, _, _)

\* condition.execute(...) / expression.execute(...) of the k-th element of a group
ElementExecute(e, group, k) ==
    IF group = "conditions"
    THEN Executed("condition", k, e.conditions[k], <<>>, <<>>)
    ELSE LET r == ConditionalExpression_execute(e.child_expressions[k])
         IN Executed("expression", k, r.result, r.trace, r.events)

\* the elements of a group
GroupLen(e, group) ==
    IF group = "conditions" THEN Len(e.conditions) ELSE Len(e.child_expressions)

\* any(...) over a list in the place of the generator: every element is executed
any_Exhaustive(e, group, k) ==
    IF k > GroupLen(e, group) THEN Evaluation(FALSE, <<>>)
    ELSE LET x == ElementExecute(e, group, k)
             rest == any_Exhaustive(e, group, k + 1)
         IN Evaluation(x.value \/ rest.result, <<x>> \o rest.trace)

\* all(x.execute(...) for x in group): stops at the first false element
all(e, group, k) ==
    IF k > GroupLen(e, group) THEN Evaluation(TRUE, <<>>)
    ELSE LET x == ElementExecute(e, group, k)
         IN IF x.value
            THEN LET rest == all(e, group, k + 1)
                 IN Evaluation(rest.result, <<x>> \o rest.trace)
            ELSE Evaluation(FALSE, <<x>>)

\* any(x.execute(...) for x in group): stops at the first true element
any(e, group, k) ==
    IF k > GroupLen(e, group) THEN Evaluation(FALSE, <<>>)
    ELSE LET x == ElementExecute(e, group, k)
         IN IF x.value
            THEN Evaluation(TRUE, <<x>>)
            ELSE LET rest == any(e, group, k + 1)
                 IN Evaluation(rest.result, <<x>> \o rest.trace)

\* 'and' with the child expressions left out
_and_ConditionsOnly(e) == all(e, "conditions", 1)

\* ConditionalExpression._and
_and(e) ==
    LET c == all(e, "conditions", 1)
    IN IF ~c.result THEN c
       ELSE LET x == all(e, "child_expressions", 1)
            IN Evaluation(x.result, c.trace \o x.trace)

\* 'or' without the test for two empty lists
_or_NoVacuous(e) ==
    LET c == any(e, "conditions", 1)
    IN IF c.result THEN c
       ELSE LET x == any(e, "child_expressions", 1)
            IN Evaluation(x.result, c.trace \o x.trace)

\* ConditionalExpression._or
_or(e) ==
    IF e.conditions = <<>> /\ e.child_expressions = <<>>
    THEN Evaluation(TRUE, <<>>)
    ELSE LET c == any(e, "conditions", 1)
         IN IF c.result THEN c
            ELSE LET x == any(e, "child_expressions", 1)
                 IN Evaluation(x.result, c.trace \o x.trace)

\* _xor lines 108-114: the loop over (self.conditions, self.child_expressions),
\* from the k-th element of the group on
XorLoop(e, group, k, is_one_found) ==
    IF k > GroupLen(e, group)
    THEN IF group = "conditions"
         THEN XorLoop(e, "child_expressions", 1, is_one_found)
         ELSE Evaluation(is_one_found, <<>>)
    ELSE LET x == ElementExecute(e, group, k)
         IN IF x.value /\ is_one_found
            THEN Evaluation(FALSE, <<x>>)
            ELSE LET rest == XorLoop(e, group, k + 1, is_one_found \/ x.value)
                 IN Evaluation(rest.result, <<x>> \o rest.trace)

\* 'xor' as the parity of the true elements
_xor_Parity(e) ==
    LET c == {i \in 1..Len(e.conditions) : e.conditions[i]}
        x == {j \in 1..Len(e.child_expressions) :
                 ConditionalExpression_execute(e.child_expressions[j]).result}
    IN Evaluation((Cardinality(c) + Cardinality(x)) % 2 = 1, <<>>)

\* ConditionalExpression._xor
_xor(e) ==
    IF e.conditions = <<>> /\ e.child_expressions = <<>>
    THEN Evaluation(TRUE, <<>>)
    ELSE XorLoop(e, "conditions", 1, FALSE)

\* the expression events the executed elements sent, in order
SentBy(trace) ==
    IF trace = <<>> THEN <<>> ELSE Head(trace).events \o SentBy(Tail(trace))

\* execute lines 84-87: the event sent for a result
EventFor(result) ==
    IF result THEN "ConditionalExpressionTrue" ELSE "ConditionalExpressionFalse"

\* what ConditionalExpression.execute did: the value returned, the elements
\* executed for it, and the expression events sent, those of the child expressions
\* included
ExecutedExpression(result, trace) ==
    [result |-> result, trace |-> trace, events |-> SentBy(trace) \o <<EventFor(result)>>]

\* execute with is_negated ignored
ConditionalExpression_execute_NoNegation(e) ==
    LET r == CASE e.operator = "and" -> _and(e)
               [] e.operator = "or" -> _or(e)
               [] e.operator = "xor" -> _xor(e)
    IN ExecutedExpression(r.result, r.trace)

\* ConditionalExpression.execute: the operator looked up, then the negation, then
\* the event for the result
ConditionalExpression_execute(e) ==
    LET r == CASE e.operator = "and" -> _and(e)
               [] e.operator = "or" -> _or(e)
               [] e.operator = "xor" -> _xor(e)
    IN ExecutedExpression(IF e.is_negated THEN ~r.result ELSE r.result, r.trace)

\* Workflow.errors: the list validate stored, or nothing before validate has run
Validated(list) == [validated |-> TRUE, list |-> list]
NotValidated == [validated |-> FALSE, list |-> <<>>]

\* execute has not been called on the expression
NotExecuted == [done |-> FALSE, result |-> FALSE, trace |-> <<>>, events |-> <<>>]

\* ------------------------------------------------------------- Condition and Transform
\* the values data_in and the results of the transforms are drawn from
Data == 0..MaxData

\* a Transform with what its collaborators do when it is executed: the validation
\* of its arguments raises InvalidArgument ("invalid"), its capability raises
\* ExecutionError ("raises") or returns result ("ok"); mutates: the collaborator
\* alters, in place, the object it was handed as data_in before it fails
Transforms ==
    [outcome : {"invalid", "raises"}, mutates : BOOLEAN, result : {0}]
        \cup [outcome : {"ok"}, mutates : {FALSE}, result : Data]

\* a Condition with its transforms and what its collaborators do: the validation
\* of its arguments passes or raises InvalidArgument, its capability returns True
\* or False or raises ExecutionError
Conditions ==
    [is_negated : BOOLEAN,
     transforms : UNION {[1..n -> Transforms] : n \in 0..MaxTransforms},
     validation : {"ok", "invalid"},
     capability : {"true", "false", "raises"}]

\* Condition() without transforms, whose capability returns True
DefaultCondition ==
    [is_negated |-> FALSE, transforms |-> <<>>, validation |-> "ok", capability |-> "true"]

\* the value of the object handed to a collaborator, after the collaborator
\* altered it in place
Mutated(data) == (data + 1) % (MaxData + 1)

\* what one call of Transform.execute did: the value of data_in when it was
\* called, what it returned, the event it sent, whether the capability was invoked
Call(data_in, returned, event, invoked) ==
    [data_in |-> data_in, returned |-> returned, event |-> event, invoked |-> invoked]

\* Transform.execute without the deepcopy of line 93: original_data_in is the
\* object the collaborators were handed
Transform_execute_NoCopy(t, data_in) ==
    LET original_data_in == IF t.mutates THEN Mutated(data_in) ELSE data_in
    IN CASE t.outcome = "invalid" -> Call(data_in, original_data_in, "TransformError", FALSE)
         [] t.outcome = "raises" -> Call(data_in, original_data_in, "TransformError", TRUE)
         [] t.outcome = "ok" -> Call(data_in, t.result, "TransformSuccess", TRUE)

\* Transform.execute
Transform_execute(t, data_in) ==
    LET original_data_in == data_in
    IN CASE t.outcome = "invalid" -> Call(data_in, original_data_in, "TransformError", FALSE)
         [] t.outcome = "raises" -> Call(data_in, original_data_in, "TransformError", TRUE)
         [] t.outcome = "ok" -> Call(data_in, t.result, "TransformSuccess", TRUE)

RECURSIVE RunTransforms_SameInput(_, _, _)
\* Condition.execute with every transform called on data_in: the output of a
\* transform is not handed to the next one
RunTransforms_SameInput(ts, k, data) ==
    IF k > Len(ts) THEN <<>>
    ELSE LET x == Transform_execute(ts[k], data)
         IN <<x>> \o RunTransforms_SameInput(ts, k + 1, data)

RECURSIVE RunTransforms(_, _, _)
\* Condition.execute lines 105-108: the transforms from the k-th on, over data
RunTransforms(ts, k, data) ==
    IF k > Len(ts) THEN <<>>
    ELSE LET x == Transform_execute(ts[k], data)
         IN <<x>> \o RunTransforms(ts, k + 1, x.returned)

\* Condition.execute lines 105-110: the local data after the loop over the
\* transforms, which __update_arguments_with_data (lines 134-140) binds to the
\* data parameter
DataOf(calls, data_in) ==
    IF calls = <<>> THEN data_in ELSE calls[Len(calls)].returned

\* what Condition.execute did
Executed_Condition(result, events, invoked, calls, data) ==
    [done |-> TRUE, result |-> result, events |-> events, invoked |-> invoked,
     calls |-> calls, data |-> data]

\* the events the calls of the transforms sent, in order
EventsOf(calls) == [i \in DOMAIN calls |-> calls[i].event]

\* Condition.execute with the negation applied to the False of a failure too
Condition_execute_NegateFailure(c, data_in) ==
    LET calls == RunTransforms(c.transforms, 1, data_in)
        sent == EventsOf(calls)
    IN IF c.validation = "invalid"
       THEN Executed_Condition(c.is_negated, sent \o <<"ConditionError">>, FALSE, calls,
                               DataOf(calls, data_in))
       ELSE IF c.capability = "raises"
       THEN Executed_Condition(c.is_negated, sent \o <<"ConditionError">>, TRUE, calls,
                               DataOf(calls, data_in))
       ELSE LET r == (c.capability = "true")
            IN Executed_Condition(IF c.is_negated THEN ~r ELSE r,
                                  sent \o <<"ConditionSuccess">>, TRUE, calls,
                                  DataOf(calls, data_in))

\* Condition.execute with True as the result of a condition that fails
Condition_execute_FailTrue(c, data_in) ==
    LET calls == RunTransforms(c.transforms, 1, data_in)
        sent == EventsOf(calls)
    IN IF c.validation = "invalid"
       THEN Executed_Condition(TRUE, sent \o <<"ConditionError">>, FALSE, calls,
                               DataOf(calls, data_in))
       ELSE IF c.capability = "raises"
       THEN Executed_Condition(TRUE, sent \o <<"ConditionError">>, TRUE, calls,
                               DataOf(calls, data_in))
       ELSE LET r == (c.capability = "true")
            IN Executed_Condition(IF c.is_negated THEN ~r ELSE r,
                                  sent \o <<"ConditionSuccess">>, TRUE, calls,
                                  DataOf(calls, data_in))

\* Condition.execute
Condition_execute(c, data_in) ==
    LET calls == RunTransforms(c.transforms, 1, data_in)
        sent == EventsOf(calls)
    IN IF c.validation = "invalid"
       THEN Executed_Condition(FALSE, sent \o <<"ConditionError">>, FALSE, calls,
                               DataOf(calls, data_in))
       ELSE IF c.capability = "raises"
       THEN Executed_Condition(FALSE, sent \o <<"ConditionError">>, TRUE, calls,
                               DataOf(calls, data_in))
       ELSE LET r == (c.capability = "true")
            IN Executed_Condition(IF c.is_negated THEN ~r ELSE r,
                                  sent \o <<"ConditionSuccess">>, TRUE, calls,
                                  DataOf(calls, data_in))

\* execute has not been called on the condition
ConditionNotExecuted ==
    [done |-> FALSE, result |-> FALSE, events |-> <<>>, invoked |-> FALSE, calls |-> <<>>,
     data |-> 0]

\* a condition that has not been executed
ConditionIdle ==
    /\ condition = DefaultCondition
    /\ cond_data_in = 0
    /\ cond_result = ConditionNotExecuted

\* ------------------------------------------------------------- Argument
\* Python values: an int, a string, a UUID, None, and the mark of a key that a
\* dict does not have
PyInt(n) == <<"int", n>>
Text(t) == <<"str", t>>
None == <<"none", 0>>
Absent == <<"absent", 0>>

\* the literal values of arguments
Literals == {PyInt(n) : n \in Data \cup {46}} \cup {Text("a"), Text("")}

\* the ids an argument can refer to
References == {Uuid(id) : id \in ActionIds}

\* the dicts ArgumentSchema loads: 'value' absent or a literal (fields.Raw does
\* not let null through), 'reference' absent, null, empty or an id
ArgumentData ==
    [name : {"name1"},
     value : {Absent} \cup Literals,
     reference : {Absent, None, Text("")} \cup {Text(ToString(id)) : id \in ActionIds}]

\* 'key in data'
HasKey(data, key) == data[key] # Absent

\* bool(x) of a value that is None or a string
Bool(x) == x # None /\ x # Text("")

\* validate_argument that raises only for an argument without value and reference
validate_argument_EitherPresent(data) ==
    LET has_value == HasKey(data, "value")
        has_reference == HasKey(data, "reference") /\ Bool(data["reference"])
    IN ~(~has_value /\ ~has_reference)

\* ArgumentSchema.validate_argument: FALSE when it raises ValidationError
validate_argument(data) ==
    LET has_value == HasKey(data, "value")
        has_reference == HasKey(data, "reference") /\ Bool(data["reference"])
    IN ~((~has_value /\ ~has_reference) \/ (has_value /\ has_reference))

\* Argument(name, value=..., reference=..., selection=...)
Argument(name, value, reference, selection) ==
    [name |-> name, value |-> value, reference |-> reference, selection |-> selection]

\* the elements of a selection, as in the test: Argument('test', 1)
SelectionElement == Argument("test", PyInt(1), None, <<>>)

\* the Arguments that are encoded: a literal value without selection, or a
\* reference with a selection of up to MaxSelection elements
Arguments ==
    {Argument(n, v, None, <<>>) : n \in {"name1", "name2"}, v \in Literals}
        \cup UNION {{Argument(n, None, r, [i \in 1..k |-> SelectionElement]) :
                        n \in {"name1", "name2"}, r \in References} : k \in 0..MaxSelection}

\* str(x)
StringForm(x) ==
    CASE x[1] = "int" -> Text(ToString(x[2]))
      [] x[1] = "str" -> x
      [] x[1] = "uuid" -> Text(ToString(x))

RECURSIVE EncodeArgument(_)
\* one argument of the wire message, its value left as the Python value
EncodeArgument_RawValue(a) ==
    [name |-> a.name,
     value |-> IF a.value # None THEN a.value ELSE Text(""),
     reference |-> IF a.reference # None THEN StringForm(a.reference) ELSE Text(""),
     selection |-> [i \in DOMAIN a.selection |-> EncodeArgument(a.selection[i])]]

\* one argument of the wire message: the string fields of the protobuf Argument
\* are '' when they are not set
EncodeArgument(a) ==
    [name |-> a.name,
     value |-> IF a.value # None THEN StringForm(a.value) ELSE Text(""),
     reference |-> IF a.reference # None THEN StringForm(a.reference) ELSE Text(""),
     selection |-> [i \in DOMAIN a.selection |-> EncodeArgument(a.selection[i])]]

\* ProtobufWorkflowResultsConverter._add_arguments_to_proto(message.arguments, arguments)
_add_arguments_to_proto(args) == [i \in DOMAIN args |-> EncodeArgument(args[i])]

\* the message has not been filled
NotEncoded == [done |-> FALSE, arguments |-> <<>>]

\* no argument has been loaded or encoded
ArgumentIdle ==
    /\ arguments = <<>>
    /\ packet = NotEncoded
    /\ arg_data = [name |-> "name1", value |-> Absent, reference |-> Absent]
    /\ arg_valid = "unset"

\* ------------------------------------------------------------- communication sender
\* the types of WorkflowControl
ControlTypes == {"PAUSE", "ABORT"}

\* CommunicationPacket with a workflow_control_message
ControlPacket(type, eid) ==
    [type |-> "WORKFLOW",
     workflow_control_message |-> [type |-> type, workflow_execution_id |-> eid]]

\* CommunicationPacket of type EXIT
ExitPacket == [type |-> "EXIT"]

\* SerializeToString: the fields that are set, in the order of their numbers
SerializeToString(p) ==
    IF p.type = "WORKFLOW"
    THEN <<"bytes", p.type, p.workflow_control_message.type,
           p.workflow_control_message.workflow_execution_id>>
    ELSE <<"bytes", p.type>>

\* ParseFromString
ParseFromString(b) ==
    IF Len(b) = 4 THEN ControlPacket(b[3], b[4]) ELSE [type |-> b[2]]

\* a control message that does not carry the execution id
_create_workflow_control_message_NoId(type, eid) ==
    SerializeToString(ControlPacket(type, 0))

\* ProtobufWorkflowCommunicationConverter._create_workflow_control_message
_create_workflow_control_message(type, eid) ==
    SerializeToString(ControlPacket(type, eid))

\* what the latest call of the sender was, and how many calls there have been
SenderCall(op, eid, calls) == [op |-> op, eid |-> eid, calls |-> calls]

\* ZmqWorkflowCommunicationSender(): nothing sent on comm_socket
SenderIdle ==
    /\ comm_socket = <<>>
    /\ sender = SenderCall("none", 0, 0)

\* ------------------------------------------------------------- results receiver
\* the executions whose events reach the receiver
Runs == 1..NumRuns

\* what to_event_callback makes of a received message: the event and the sender
\* ("none": not resolved), and the execution the message is about
Message(event, sender_, eid) == [event |-> event, sender |-> sender_, eid |-> eid]

\* the event a run sends when it ends: workflow.py line 162 (paused), line 167
\* (aborted), line 243 called from line 185 (completed)
EndEvent(how) ==
    CASE how = "paused" -> "WorkflowPaused"
      [] how = "aborted" -> "WorkflowAborted"
      [] how = "completed" -> "WorkflowShutdown"

\* _send_callback lines 64 and 70 with the test of the sender and of the event
\* left out of the count: every message that names a terminal event, or whose
\* event is not resolved, is counted
CountsMessage_Unresolved(m) ==
    m.event \in {"WorkflowShutdown", "WorkflowAborted", "none"}

\* _send_callback lines 64 and 70: the message makes the receiver count
CountsMessage(m) ==
    /\ m.sender # "none" /\ m.event # "none"
    /\ m.event \in {"WorkflowShutdown", "WorkflowAborted"}

\* a call of wait_and_reset: where it is, num_workflows, its local timeout in
\* polls, and how it left the loop
Waiter(at, n, timeout, how) == [pc |-> at, n |-> n, timeout |-> timeout, how |-> how]

\* ZmqWorkflowResultsReceiver.__init__, no run has ended, nobody waits
ReceiverIdle ==
    /\ results_sock = <<>>
    /\ workflows_executed = 0
    /\ runs = [e \in Runs |-> "running"]
    /\ counted = [e \in Runs |-> 0]
    /\ waiter = Waiter("idle", 0, 0, "none")
    /\ receiving = TRUE

\* ------------------------------------------------------------- the pool of worker processes
\* the worker processes the pool was started with
NumProcesses == 3
Processes == 1..NumProcesses

\* the call of shutdown_pool: where it is, the process the loop of line 112 is at,
\* and whether that process was alive when its join returned
Pool(at, i, alive) == [pc |-> at, i |-> i, alive |-> alive]

\* what shutdown_pool sent: the Exit broadcast or a signal to process w, and for
\* a signal whether w was alive when the join before it returned
Signal(sig, w, alive) == [sig |-> sig, w |-> w, alive |-> alive]

\* initialize_threading: every worker process of pids runs, nothing was sent
PoolIdle ==
    /\ pids = [w \in Processes |-> "alive"]
    /\ signals = <<>>
    /\ pool = Pool("idle", 0, FALSE)

\* ------------------------------------------------------------- apiutil
\* the three lookups, each with the section of the app api it reads and the error
\* it declares for a missing function
Lookups == {"get_app_action_api", "get_condition_api", "get_transform_api"}

SectionOf(fn) ==
    CASE fn = "get_app_action_api" -> "actions"
      [] fn = "get_condition_api" -> "conditions"
      [] fn = "get_transform_api" -> "transforms"

UnknownFunction(fn) ==
    CASE fn = "get_app_action_api" -> "UnknownAppAction"
      [] fn = "get_condition_api" -> "UnknownCondition"
      [] fn = "get_transform_api" -> "UnknownTransform"

\* what a section of an app api holds for the name that is looked up: the section
\* is not there, it has no entry of that name, the entry lacks 'run', it lacks
\* 'data_in', or it has both
Entries == {"no_section", "no_entry", "no_run", "no_data_in", "full"}

\* what redis_cache.hget("app-apis", app) finds: no field for the app (None), the
\* JSON text of an empty api, or the JSON text of an api with its three sections
StoredApis ==
    {[kind |-> "none"], [kind |-> "empty"]}
        \cup {[kind |-> "api", actions |-> a, conditions |-> c, transforms |-> t] :
                 a \in Entries, c \in Entries, t \in Entries}

\* what a lookup did: it returned, or the exception that left it
Looked(fn, how) == [done |-> TRUE, fn |-> fn, outcome |-> how]
NotLooked == [done |-> FALSE, fn |-> "none", outcome |-> "none"]

\* get_app_action_api (lines 12-35), get_condition_api (141-167) and
\* get_transform_api (170-196): json.loads of what hget returned, which raises
\* TypeError on None; KeyError for an empty api, caught and turned into UnknownApp;
\* then the indexing of the section, of the name, of 'run' and (not for actions) of
\* 'data_in', whose KeyError is turned into the error of the function
ApiLookup(fn, stored) ==
    IF stored.kind = "none" THEN Looked(fn, "TypeError")
    ELSE IF stored.kind = "empty" THEN Looked(fn, "UnknownApp")
    ELSE LET entry == stored[SectionOf(fn)]
         IN IF entry \in {"no_section", "no_entry", "no_run"}
            THEN Looked(fn, UnknownFunction(fn))
            ELSE IF entry = "no_data_in" /\ fn # "get_app_action_api"
            THEN Looked(fn, UnknownFunction(fn))
            ELSE Looked(fn, "returned")

\* no app is installed and nothing has been looked up
ApiIdle ==
    /\ app_apis = [kind |-> "none"]
    /\ api_call = NotLooked

LastIdle == PoolIdle /\ ApiIdle

\* nothing but the engine, the executor, the validator or the expression evaluator
\* has run
LaterIdle == ConditionIdle /\ ArgumentIdle /\ SenderIdle /\ ReceiverIdle /\ LastIdle

\* a workflow of the actions ActionIds, without nested workflows, as validate left
\* it, and an expression that has not been executed
PureIdle ==
    /\ actions = ActionIds
    /\ child_workflows = {}
    /\ errors = Validated(Errors(ActionIds, start, branches))
    /\ expr = DefaultExpression
    /\ expr_result = NotExecuted
    /\ LaterIdle

\* ------------------------------------------------------------- initial state
\* what an executor call reports: the status it read, what it returned, and the
\* control messages and execute requests it handed to the manager
Ret(op, eid, seen, value, sent, submitted) ==
    [op |-> op, eid |-> eid, seen |-> seen, value |-> value, sent |-> sent,
     submitted |-> submitted]

\* MultiprocessedExecutor.__init__, an empty status table, idle workers
ExecutorInit ==
    /\ status = [e \in ExecIds |-> "none"]
    /\ saved = [e \in ExecIds |-> NoneId]
    /\ queue = <<>>
    /\ ctrl = <<>>
    /\ worker = [w \in Workers |-> 0]
    /\ wpause = [w \in Workers |-> FALSE]
    /\ wabort = [w \in Workers |-> FALSE]
    /\ rpc = [c \in Callers |-> 0]
    /\ ret = Ret("none", 0, "none", "none", 0, <<>>)
    /\ next_id = 1
    /\ wf_eid = 0

BranchRecords == [source_id : NodeIds, destination_id : NodeIds, priority : Priorities]

Init ==
    /\ start \in {NoneId} \cup NodeIds
    /\ branches \in [BranchIdx -> BranchRecords]
    /\ is_valid = Validate(start, branches)
    /\ _is_paused = FALSE
    /\ _abort = FALSE
    /\ _accumulator = InitAccumulator(branches)
    /\ _execution_id = 0
    /\ _executing_action = NoneId
    /\ instances = {}
    /\ pc = "idle"
    /\ start_arguments = FALSE
    /\ last_result = NoResult
    /\ truth = [b \in BranchIdx |-> FALSE]
    /\ pending = <<>>
    /\ outcome = NoOutcome
    /\ abort_at = 0
    /\ log = <<>>
    /\ ExecutorInit
    /\ PureIdle

\* ------------------------------------------------------------- Workflow.pause / abort
\* Workflow.pause, called by the worker's control thread at any time
Pause ==
    /\ ~_is_paused
    /\ _is_paused' = TRUE
    /\ UNCHANGED <<workflowVars, _abort, _accumulator, _execution_id, _executing_action,
                   instances, pc, start_arguments, last_result, truth, pending, outcome,
                   abort_at, log>>

\* Workflow.abort, called by the worker's control thread at any time
Abort ==
    /\ ~_abort
    /\ _abort' = TRUE
    /\ abort_at' = IF pc = "in_action" THEN Len(Invocations(log)) ELSE abort_at
    /\ UNCHANGED <<workflowVars, _is_paused, _accumulator, _execution_id, _executing_action,
                   instances, pc, start_arguments, last_result, truth, pending, outcome, log>>

\* ------------------------------------------------------------- Workflow.execute
\* execute without the test of is_valid
Execute_Unchecked(eid, st, args) ==
    /\ pc = "idle"
    /\ LET s == IF st # NoneId THEN st ELSE start
           first == get_action_by_id(s)
       IN /\ _execution_id' = eid
          /\ start_arguments' = args
          /\ log' = <<Entry("WorkflowExecutionStart", NoneId, 0, {})>>
          /\ IF first # NoneId
             THEN /\ _executing_action' = first
                  /\ pc' = "check_paused"
             ELSE /\ pc' = "complete"
                  /\ UNCHANGED _executing_action
          /\ UNCHANGED outcome
    /\ UNCHANGED <<workflowVars, abort_at, _is_paused, _abort, _accumulator, instances, last_result,
                   truth, pending>>

\* execute(execution_id, start, start_arguments) up to the first node of __actions
Execute(eid, st, args) ==
    /\ pc = "idle"
    /\ IF is_valid
       THEN LET s == IF st # NoneId THEN st ELSE start
                first == get_action_by_id(s)
            IN /\ _execution_id' = eid
               /\ start_arguments' = args
               /\ log' = <<Entry("WorkflowExecutionStart", NoneId, 0, {})>>
               /\ IF first # NoneId
                  THEN /\ _executing_action' = first
                       /\ pc' = "check_paused"
                  ELSE /\ pc' = "complete"
                       /\ UNCHANGED _executing_action
               /\ UNCHANGED outcome
       ELSE /\ pc' = "returned"
            /\ outcome' = Outcome("Refused", NoResult)
            /\ UNCHANGED <<_execution_id, start_arguments, log, _executing_action>>
    /\ UNCHANGED <<workflowVars, abort_at, _is_paused, _abort, _accumulator, instances, last_result,
                   truth, pending>>

\* the Paused event as a mere notification: the run goes on after it
CheckPaused_Continue ==
    /\ pc = "check_paused"
    /\ IF _is_paused
       THEN /\ _is_paused' = FALSE
            /\ log' = log \o <<Entry("WorkflowPaused", _executing_action, 0, {}),
                                Entry("return", NoneId, 0, {})>>
            /\ outcome' = Outcome("Paused", NoResult)
       ELSE UNCHANGED <<_is_paused, log, outcome>>
    /\ pc' = "check_abort"
    /\ UNCHANGED <<workflowVars, abort_at, _abort, _accumulator, _execution_id,
                   _executing_action, instances, start_arguments, last_result, truth, pending>>

\* the abort flag looked at before the pause flag
CheckPaused_AbortFirst ==
    /\ pc = "check_paused"
    /\ IF _abort
       THEN /\ _abort' = FALSE
            /\ log' = log \o <<Entry("WorkflowAborted", _executing_action, 0, {}),
                                Entry("return", NoneId, 0, {})>>
            /\ outcome' = Outcome("Aborted", NoResult)
            /\ pc' = "returned"
            /\ UNCHANGED _is_paused
       ELSE /\ UNCHANGED _abort
            /\ IF _is_paused
               THEN /\ _is_paused' = FALSE
                    /\ log' = log \o <<Entry("WorkflowPaused", _executing_action, 0, {}),
                                        Entry("return", NoneId, 0, {})>>
                    /\ outcome' = Outcome("Paused", NoResult)
                    /\ pc' = "returned"
               ELSE /\ pc' = "check_abort"
                    /\ UNCHANGED <<_is_paused, log, outcome>>
    /\ UNCHANGED <<workflowVars, abort_at, _accumulator, _execution_id, _executing_action,
                   instances, start_arguments, last_result, truth, pending>>

\* the abort flag never looked at: the next action is invoked whatever it says
CheckAbort_Ignored(d) ==
    /\ pc = "check_abort"
    /\ Len(Invocations(log)) < MaxSteps
    /\ instances' = IF d # 0 THEN instances \cup {d} ELSE instances
    /\ log' = Append(log, Entry("invoke", _executing_action,
                                IF start_arguments THEN 1 ELSE 0, {}))
    /\ pc' = "in_action"
    /\ UNCHANGED <<workflowVars, abort_at, _is_paused, _abort, outcome, _accumulator,
                   _execution_id, _executing_action, start_arguments, last_result, truth,
                   pending>>

\* __execute lines 160-164: the pause check at the action boundary
CheckPaused ==
    /\ pc = "check_paused"
    /\ IF _is_paused
       THEN /\ _is_paused' = FALSE
            /\ log' = log \o <<Entry("WorkflowPaused", _executing_action, 0, {}),
                                Entry("return", NoneId, 0, {})>>
            /\ outcome' = Outcome("Paused", NoResult)
            /\ pc' = "returned"
       ELSE /\ pc' = "check_abort"
            /\ UNCHANGED <<_is_paused, log, outcome>>
    /\ UNCHANGED <<workflowVars, abort_at, _abort, _accumulator, _execution_id, _executing_action,
                   instances, start_arguments, last_result, truth, pending>>

\* __execute lines 165-175: the abort check, then the instance set-up and the
\* call of action.execute (d is the device setup_app_instance returns, 0 for none)
CheckAbort(d) ==
    /\ pc = "check_abort"
    /\ IF _abort
       THEN /\ d = 0
            /\ _abort' = FALSE
            /\ log' = log \o <<Entry("WorkflowAborted", _executing_action, 0, {}),
                                Entry("return", NoneId, 0, {})>>
            /\ outcome' = Outcome("Aborted", NoResult)
            /\ pc' = "returned"
            /\ UNCHANGED instances
       ELSE /\ Len(Invocations(log)) < MaxSteps
            /\ instances' = IF d # 0 THEN instances \cup {d} ELSE instances
            /\ log' = Append(log, Entry("invoke", _executing_action,
                                        IF start_arguments THEN 1 ELSE 0, {}))
            /\ pc' = "in_action"
            /\ UNCHANGED <<_abort, outcome>>
    /\ UNCHANGED <<workflowVars, abort_at, _is_paused, _accumulator, _execution_id, _executing_action,
                   start_arguments, last_result, truth, pending>>

\* action.execute raises: the exception leaves __execute and execute
ActionRaises ==
    /\ pc = "in_action"
    /\ pc' = "raised"
    /\ log' = Append(log, Entry("raise", _executing_action, 0, {}))
    /\ UNCHANGED <<workflowVars, abort_at, _is_paused, _abort, _accumulator, _execution_id,
                   _executing_action, instances, start_arguments, last_result, truth,
                   pending, outcome>>

\* the result of a trigger action written to the accumulator before the return
ActionTriggers_Recorded ==
    /\ pc = "in_action"
    /\ start_arguments' = FALSE
    /\ _accumulator' = AccPut(_accumulator, Uuid(_executing_action), Len(Invocations(log)))
    /\ log' = log \o <<Entry("write", _executing_action, Len(Invocations(log)), {}),
                        Entry("return", NoneId, 0, {})>>
    /\ outcome' = Outcome("Triggered", NoResult)
    /\ pc' = "returned"
    /\ UNCHANGED <<workflowVars, abort_at, _is_paused, _abort, _execution_id,
                   _executing_action, instances, last_result, truth, pending>>

\* __execute lines 175-181: action.execute returns a result whose status is "trigger"
ActionTriggers ==
    /\ pc = "in_action"
    /\ start_arguments' = FALSE
    /\ log' = Append(log, Entry("return", NoneId, 0, {}))
    /\ outcome' = Outcome("Triggered", NoResult)
    /\ pc' = "returned"
    /\ UNCHANGED <<workflowVars, abort_at, _is_paused, _abort, _accumulator, _execution_id,
                   _executing_action, instances, last_result, truth, pending>>

\* action.get_output().result: the k-th invocation of the call produces result k
ResultOf(l) == Len(Invocations(l))

\* the result of an action that already has an entry is not written again
ActionReturns_WriteOnce(t) ==
    /\ pc = "in_action"
    /\ start_arguments' = FALSE
    /\ last_result' = ResultOf(log)
    /\ IF AccHas(_accumulator, Uuid(_executing_action))
       THEN UNCHANGED <<_accumulator, log>>
       ELSE /\ _accumulator' = AccPut(_accumulator, Uuid(_executing_action), ResultOf(log))
            /\ log' = Append(log, Entry("write", _executing_action, ResultOf(log), {}))
    /\ truth' = t
    /\ pending' = BranchOrder(branches, _executing_action)
    /\ pc' = "get_branch"
    /\ UNCHANGED <<workflowVars, abort_at, _is_paused, _abort, _execution_id, _executing_action,
                   instances, outcome>>

\* start_arguments not reset after the first invocation
ActionReturns_KeepArguments(t) ==
    /\ pc = "in_action"
    /\ last_result' = ResultOf(log)
    /\ _accumulator' = AccPut(_accumulator, Uuid(_executing_action), ResultOf(log))
    /\ log' = Append(log, Entry("write", _executing_action, ResultOf(log), {}))
    /\ truth' = t
    /\ pending' = BranchOrder(branches, _executing_action)
    /\ pc' = "get_branch"
    /\ UNCHANGED <<workflowVars, abort_at, _is_paused, _abort, _execution_id, _executing_action,
                   instances, outcome, start_arguments>>

\* __execute lines 175-183 and the entry of get_branch: action.execute returns;
\* t is what each branch expression evaluates to on this result and accumulator
ActionReturns(t) ==
    /\ pc = "in_action"
    /\ start_arguments' = FALSE
    /\ last_result' = ResultOf(log)
    /\ _accumulator' = AccPut(_accumulator, Uuid(_executing_action), ResultOf(log))
    /\ log' = Append(log, Entry("write", _executing_action, ResultOf(log), {}))
    /\ truth' = t
    /\ pending' = BranchOrder(branches, _executing_action)
    /\ pc' = "get_branch"
    /\ UNCHANGED <<workflowVars, abort_at, _is_paused, _abort, _execution_id, _executing_action,
                   instances, outcome>>

\* the loop over the branches going on after a branch was taken
EvalBranch_NoShortCircuit ==
    /\ pc = "get_branch"
    /\ pending # <<>>
    /\ LET b == Head(pending)
           next == get_action_by_id(branches[b].destination_id)
       IN /\ log' = Append(log, Entry("eval", b, IF truth[b] THEN 1 ELSE 0, {}))
          /\ pending' = Tail(pending)
          /\ IF truth[b] /\ next # NoneId
             THEN _executing_action' = next
             ELSE UNCHANGED _executing_action
          /\ IF Tail(pending) = <<>> /\ truth[b]
             THEN pc' = IF next # NoneId THEN "check_paused" ELSE "complete"
             ELSE UNCHANGED pc
    /\ UNCHANGED <<workflowVars, abort_at, _is_paused, _abort, _accumulator, _execution_id,
                   instances, start_arguments, last_result, truth, outcome>>

\* get_branch lines 219-226: branch.execute of the next branch in order
EvalBranch ==
    /\ pc = "get_branch"
    /\ pending # <<>>
    /\ LET b == Head(pending)
           next == get_action_by_id(branches[b].destination_id)
       IN /\ log' = Append(log, Entry("eval", b, IF truth[b] THEN 1 ELSE 0, {}))
          /\ IF truth[b]
             THEN /\ pending' = <<>>
                  /\ IF next # NoneId
                     THEN /\ _executing_action' = next
                          /\ pc' = "check_paused"
                     ELSE /\ pc' = "complete"
                          /\ UNCHANGED _executing_action
             ELSE /\ pending' = Tail(pending)
                  /\ UNCHANGED <<pc, _executing_action>>
    /\ UNCHANGED <<workflowVars, abort_at, _is_paused, _abort, _accumulator, _execution_id,
                   instances, start_arguments, last_result, truth, outcome>>

\* get_branch line 227: no branch was taken, the node sequence ends
NoBranch ==
    /\ pc = "get_branch"
    /\ pending = <<>>
    /\ pc' = "complete"
    /\ UNCHANGED <<workflowVars, abort_at, _is_paused, _abort, _accumulator, _execution_id,
                   _executing_action, instances, start_arguments, last_result, truth,
                   pending, outcome, log>>

\* the completion with the pause and abort flags reset by __shutdown
Complete_ClearsFlags ==
    /\ pc = "complete"
    /\ instances' = {}
    /\ log' = log \o <<Entry("shutdown_instances", NoneId, 0, {}),
                        Entry("WorkflowShutdown", NoneId, 0, ShutdownData(_accumulator)),
                        Entry("return", NoneId, last_result, {})>>
    /\ outcome' = Outcome("Result", last_result)
    /\ pc' = "returned"
    /\ _is_paused' = FALSE
    /\ _abort' = FALSE
    /\ UNCHANGED <<workflowVars, abort_at, _accumulator, _execution_id,
                   _executing_action, start_arguments, last_result, truth, pending>>

\* __execute lines 184-185: __shutdown, then the completion result
Complete ==
    /\ pc = "complete"
    /\ instances' = {}
    /\ log' = log \o <<Entry("shutdown_instances", NoneId, 0, {}),
                        Entry("WorkflowShutdown", NoneId, 0, ShutdownData(_accumulator)),
                        Entry("return", NoneId, last_result, {})>>
    /\ outcome' = Outcome("Result", last_result)
    /\ pc' = "returned"
    /\ UNCHANGED <<workflowVars, abort_at, _is_paused, _abort, _accumulator, _execution_id,
                   _executing_action, start_arguments, last_result, truth, pending>>

Next ==
    \/ Pause
    \/ Abort
    \/ \E eid \in ExecIds, st \in {NoneId} \cup NodeIds, args \in BOOLEAN :
          Execute(eid, st, args)
    \/ CheckPaused
    \/ \E d \in {0} \cup Devices : CheckAbort(d)
    \/ ActionRaises
    \/ ActionTriggers
    \/ \E t \in [DOMAIN branches -> BOOLEAN] : ActionReturns(t)
    \/ EvalBranch
    \/ NoBranch
    \/ Complete

Spec == Init /\ [][Next]_vars

\* ------------------------------------------------------------- MultiprocessedExecutor
\* one execute request, as manager.add_workflow receives it
Request(eid, st, args, resume) ==
    [execution_id |-> eid, start |-> st, start_arguments |-> args, resume |-> resume]

\* execute_workflow lines 155-159: the execution id of the request
ExecutionIdFor(resume) == IF ~resume THEN next_id ELSE wf_eid

\* an engine in its initial state, for the behaviours of the executor alone
EngineIdle ==
    /\ start = 1
    /\ branches = [b \in BranchIdx |-> [source_id |-> 1, destination_id |-> 1,
                                        priority |-> 1]]
    /\ is_valid = Validate(start, branches)
    /\ _is_paused = FALSE
    /\ _abort = FALSE
    /\ _accumulator = InitAccumulator(branches)
    /\ _execution_id = 0
    /\ _executing_action = NoneId
    /\ instances = {}
    /\ pc = "idle"
    /\ start_arguments = FALSE
    /\ last_result = NoResult
    /\ truth = [b \in BranchIdx |-> FALSE]
    /\ pending = <<>>
    /\ outcome = NoOutcome
    /\ abort_at = 0
    /\ log = <<>>

InitDispatch == EngineIdle /\ ExecutorInit /\ PureIdle

\* execute_workflow(workflow, start, start_arguments), resume left False: a fresh
\* execution id, the Pending event (its handler records the status), one request
ExecuteWorkflow(st, args) ==
    /\ next_id \in ExecIds
    /\ Len(queue) < MaxQueue
    /\ LET eid == ExecutionIdFor(FALSE)
       IN /\ wf_eid' = eid
          /\ next_id' = next_id + 1
          /\ status' = [status EXCEPT ![eid] = "pending"]
          /\ queue' = Append(queue, Request(eid, st, args, FALSE))
          /\ ret' = Ret("execute", eid, "none", "id", 0, <<Request(eid, st, args, FALSE)>>)
    /\ UNCHANGED <<engineVars, saved, ctrl, worker, wpause, wabort, rpc>>

\* pause_workflow(execution_id): line 181 reads workflow_status.__dict__, which
\* raises AttributeError when the query found no record
PauseWorkflow(eid) ==
    /\ Len(ctrl) < MaxCtrl
    /\ IF status[eid] = "none"
       THEN /\ ret' = Ret("pause", eid, status[eid], "raised", 0, <<>>)
            /\ UNCHANGED ctrl
       ELSE IF status[eid] = "running"
            THEN /\ ctrl' = Append(ctrl, [type |-> "PAUSE", execution_id |-> eid])
                 /\ ret' = Ret("pause", eid, status[eid], "true", 1, <<>>)
            ELSE /\ ret' = Ret("pause", eid, status[eid], "false", 0, <<>>)
                 /\ UNCHANGED ctrl
    /\ UNCHANGED <<engineVars, status, saved, queue, worker, wpause, wabort, rpc, next_id,
                   wf_eid>>

\* resume_workflow lines 196-202 and 211-213: the query of the status, line 200
\* raising AttributeError when there is no record; caller c goes on when it read paused
ResumeRead(c, eid) ==
    /\ rpc[c] = 0
    /\ IF status[eid] = "none"
       THEN /\ ret' = Ret("resume", eid, status[eid], "raised", 0, <<>>)
            /\ UNCHANGED rpc
       ELSE IF status[eid] = "paused"
            THEN /\ rpc' = [rpc EXCEPT ![c] = eid]
                 /\ UNCHANGED ret
            ELSE /\ ret' = Ret("resume", eid, status[eid], "false", 0, <<>>)
                 /\ UNCHANGED rpc
    /\ UNCHANGED <<engineVars, status, saved, queue, ctrl, worker, wpause, wabort, next_id,
                   wf_eid>>

\* resume_workflow lines 203-210: the saved state is read, the workflow object gets
\* the execution id, and execute_workflow(workflow, start=action_id, resume=True)
\* hands one request to the manager
ResumeSubmit(c) ==
    /\ rpc[c] # 0
    /\ Len(queue) < MaxQueue
    /\ LET e == rpc[c]
           eid == e
           req == Request(eid, saved[e], FALSE, TRUE)
       IN /\ wf_eid' = e
          /\ status' = [status EXCEPT ![eid] = "pending"]
          /\ queue' = Append(queue, req)
          /\ ret' = Ret("resume", e, "paused", "true", 0, <<req>>)
    /\ rpc' = [rpc EXCEPT ![c] = 0]
    /\ UNCHANGED <<engineVars, saved, ctrl, worker, wpause, wabort, next_id>>

\* abort(execution_id) of the dispatcher: one ABORT message
AbortWorkflow(eid) ==
    /\ Len(ctrl) < MaxCtrl
    /\ ctrl' = Append(ctrl, [type |-> "ABORT", execution_id |-> eid])
    /\ ret' = Ret("abort", eid, status[eid], "none", 1, <<>>)
    /\ UNCHANGED <<engineVars, status, saved, queue, worker, wpause, wabort, rpc, next_id,
                   wf_eid>>

\* the dispatcher assigns the oldest request to an idle worker, which starts the
\* engine (the ExecutionStart event records the status running)
Dispatch(w) ==
    /\ queue # <<>>
    /\ worker[w] = 0
    /\ worker' = [worker EXCEPT ![w] = Head(queue).execution_id]
    /\ wpause' = [wpause EXCEPT ![w] = FALSE]
    /\ wabort' = [wabort EXCEPT ![w] = FALSE]
    /\ queue' = Tail(queue)
    /\ status' = [status EXCEPT ![Head(queue).execution_id] = "running"]
    /\ UNCHANGED <<engineVars, saved, ctrl, rpc, ret, next_id, wf_eid>>

\* the dispatcher routes the oldest control message to a worker that holds the
\* execution; with no such worker the message is dropped
Forward(w) ==
    /\ ctrl # <<>>
    /\ LET m == Head(ctrl)
       IN /\ \/ worker[w] = m.execution_id
             \/ \A v \in Workers : worker[v] # m.execution_id
          /\ IF worker[w] = m.execution_id
             THEN /\ wpause' = [wpause EXCEPT ![w] = @ \/ m.type = "PAUSE"]
                  /\ wabort' = [wabort EXCEPT ![w] = @ \/ m.type = "ABORT"]
             ELSE UNCHANGED <<wpause, wabort>>
    /\ ctrl' = Tail(ctrl)
    /\ UNCHANGED <<engineVars, status, saved, queue, worker, rpc, ret, next_id, wf_eid>>

\* the engine of worker w stops at a boundary with the pause flag set: the Paused
\* event records the status and the checkpoint a, and the worker is idle again
WorkerPaused(w, a) ==
    /\ worker[w] # 0
    /\ wpause[w]
    /\ status' = [status EXCEPT ![worker[w]] = "paused"]
    /\ saved' = [saved EXCEPT ![worker[w]] = a]
    /\ worker' = [worker EXCEPT ![w] = 0]
    /\ wpause' = [wpause EXCEPT ![w] = FALSE]
    /\ UNCHANGED <<engineVars, queue, ctrl, wabort, rpc, ret, next_id, wf_eid>>

\* the engine of worker w ends: Aborted when its abort flag is set, else Completed
\* or, at a trigger action, Triggered
WorkerEnds(w, how) ==
    /\ worker[w] # 0
    /\ how = "aborted" <=> wabort[w]
    /\ status' = [status EXCEPT ![worker[w]] = how]
    /\ worker' = [worker EXCEPT ![w] = 0]
    /\ wabort' = [wabort EXCEPT ![w] = FALSE]
    /\ wpause' = [wpause EXCEPT ![w] = FALSE]
    /\ UNCHANGED <<engineVars, saved, queue, ctrl, rpc, ret, next_id, wf_eid>>

NextDispatch ==
    \/ \E st \in {NoneId} \cup ActionIds, args \in BOOLEAN : ExecuteWorkflow(st, args)
    \/ \E eid \in ExecIds : PauseWorkflow(eid)
    \/ \E c \in Callers, eid \in ExecIds : ResumeRead(c, eid)
    \/ \E c \in Callers : ResumeSubmit(c)
    \/ \E eid \in ExecIds : AbortWorkflow(eid)
    \/ \E w \in Workers : Dispatch(w)
    \/ \E w \in Workers : Forward(w)
    \/ \E w \in Workers, a \in ActionIds : WorkerPaused(w, a)
    \/ \E w \in Workers, how \in {"completed", "aborted", "awaiting_data"} : WorkerEnds(w, how)

SpecDispatch == InitDispatch /\ [][NextDispatch]_vars

\* ------------------------------------------------------------- properties of the engine
Returns(l) == SelectSeq(l, LAMBDA e : e.op = "return")
Writes(l) == SelectSeq(l, LAMBDA e : e.op = "write")
EventsNamed(l, name) == SelectSeq(l, LAMBDA e : e.op = name)
Stopped == pc = "returned"

\* C1: a call of execute on a valid workflow returns exactly one outcome among
\* Paused, Aborted, Triggered and the completion result, and the return is the
\* last thing the call does: no node is invoked and nothing is emitted after it.
C1_OneOutcome ==
    is_valid =>
        /\ Len(Returns(log)) <= 1
        /\ \A i \in 1..Len(log) : log[i].op = "return" => i = Len(log)
        /\ outcome.kind # "none" => Stopped
        /\ Stopped => /\ outcome.kind \in {"Paused", "Aborted", "Triggered", "Result"}
                      /\ Len(Returns(log)) = 1

\* C1 witness: the call returned Paused after it had invoked a node
C1_Witness ==
    /\ is_valid
    /\ Stopped
    /\ outcome.kind = "Paused"
    /\ Len(Invocations(log)) >= 1

C4_InstancesReleased ==
    (Stopped /\ outcome.kind \in {"Aborted", "Paused", "Triggered", "Result"})
        => instances = {}

\* C5 as stated: a run that ends Completed or Aborted has emitted exactly one
\* Shutdown event, whose payload is the accumulator with string keys.
C5_Original ==
    (Stopped /\ outcome.kind \in {"Result", "Aborted"})
        => /\ Len(EventsNamed(log, "WorkflowShutdown")) = 1
           /\ EventsNamed(log, "WorkflowShutdown")[1].data
                 = {<<Str(p[1]), p[2]>> : p \in _accumulator}

\* C5 as amended: a run that ends Completed has emitted exactly one Shutdown event,
\* whose payload is the whole accumulator with every key in its string form; a run
\* that ends Aborted has emitted one Aborted event and no Shutdown event.
C5_ShutdownOnCompleted ==
    /\ (Stopped /\ outcome.kind = "Result")
          => /\ Len(EventsNamed(log, "WorkflowShutdown")) = 1
             /\ EventsNamed(log, "WorkflowShutdown")[1].data
                   = {<<Str(p[1]), p[2]>> : p \in _accumulator}
             /\ Len(EventsNamed(log, "WorkflowAborted")) = 0
    /\ (Stopped /\ outcome.kind = "Aborted")
          => /\ Len(EventsNamed(log, "WorkflowShutdown")) = 0
             /\ Len(EventsNamed(log, "WorkflowAborted")) = 1

\* C5 witness: a run of two actions completed
C5_Witness ==
    /\ Stopped
    /\ outcome.kind = "Result"
    /\ Len(Writes(log)) = 2
    /\ Cardinality(_accumulator) = NumBranches + 2

\* the position, among the invocations of the call, of the latest invocation of node a
LastInvocationOf(a) ==
    CHOOSE k \in 1..Len(Invocations(log)) :
        /\ Invocations(log)[k].id = a
        /\ \A j \in (k + 1)..Len(Invocations(log)) : Invocations(log)[j].id # a

\* the writes of the call to the accumulator entry of node a
WritesOf(a) == SelectSeq(log, LAMBDA e : e.op = "write" /\ e.id = a)

\* the accumulator holds, for each action, the value of the latest write of the call
\* to its entry, and no entry for an action that was not written
AccMatchesWrites ==
    /\ \A p, q \in _accumulator : p[1] = q[1] => p = q
    /\ \A a \in ActionIds :
          /\ AccHas(_accumulator, Uuid(a)) <=> WritesOf(a) # <<>>
          /\ WritesOf(a) # <<>>
                => AccGet(_accumulator, Uuid(a)) = WritesOf(a)[Len(WritesOf(a))].val

\* C11: when a call has returned the completion result after invoking at least one
\* node, the value returned is the result of the last node invoked and equals that
\* node's accumulator entry, and the accumulator maps the id of every node invoked
\* to the result of that node's latest invocation (the k-th invocation produces k).
C11_CompletedResult ==
    (Stopped /\ outcome.kind = "Result" /\ Len(Invocations(log)) >= 1) =>
        LET inv == Invocations(log)
            last == inv[Len(inv)].id
        IN /\ \A p, q \in _accumulator : p[1] = q[1] => p = q
           /\ AccHas(_accumulator, Uuid(last))
           /\ outcome.value = AccGet(_accumulator, Uuid(last))
           /\ outcome.value = Len(inv)
           /\ \A k \in 1..Len(inv) :
                 /\ AccHas(_accumulator, Uuid(inv[k].id))
                 /\ AccGet(_accumulator, Uuid(inv[k].id)) = LastInvocationOf(inv[k].id)

\* C11 witness: a run A -> B of two different actions completed
C11_Witness ==
    /\ Stopped
    /\ outcome.kind = "Result"
    /\ Len(Invocations(log)) = 2
    /\ Invocations(log)[1].id # Invocations(log)[2].id
    /\ outcome.value = 2

\* C12 as stated: within one call the accumulator entry of each action is written
\* at most once, also when a branch leads back to an action already executed.
C12_Original ==
    \A a \in ActionIds : Len(WritesOf(a)) <= 1

\* C12 as amended: the accumulator entry of an action is written once for each
\* invocation of that action that completed with a result, right after that
\* invocation and with its result, and at no other time; an action reached again
\* through a branch is invoked again and its entry is overwritten, so that the
\* entry holds the result of the latest invocation.
C12_WriteAfterEachCompletion ==
    /\ \A i \in 1..Len(log) :
          log[i].op = "write"
             => /\ i > 1
                /\ log[i - 1].op = "invoke"
                /\ log[i - 1].id = log[i].id
                /\ log[i].val = Len(Invocations(SubSeq(log, 1, i)))
    /\ \A i \in 1..(Len(log) - 1) :
          log[i].op = "invoke"
             => /\ log[i + 1].op \in {"write", "raise", "return"}
                /\ log[i + 1].op = "write" => log[i + 1].id = log[i].id
    /\ pc \in {"check_paused", "check_abort", "get_branch", "complete"}
          => Len(Writes(log)) = Len(Invocations(log))
    /\ pc = "in_action" => Len(Writes(log)) = Len(Invocations(log)) - 1
    /\ AccMatchesWrites

\* C12 witness: a branch led back to an action, whose entry was written a second time
C12_Witness ==
    \E a \in ActionIds :
       /\ Len(WritesOf(a)) = 2
       /\ AccGet(_accumulator, Uuid(a)) = 2

\* C13: when a node reports a trigger outcome the call returns Triggered at once:
\* the invocation is the last thing before the return, so no branch is evaluated
\* and no further node is invoked, and the accumulator gets no entry for this
\* invocation (it holds what the earlier invocations of the call wrote).
C13_TriggeredStops ==
    outcome.kind = "Triggered" =>
        /\ Stopped
        /\ Len(log) >= 2
        /\ log[Len(log)].op = "return"
        /\ log[Len(log) - 1].op = "invoke"
        /\ log[Len(log) - 1].id = _executing_action
        /\ Len(Writes(log)) = Len(Invocations(log)) - 1
        /\ pending = <<>>
        /\ AccMatchesWrites

\* C13 witness: the second node invoked reported a trigger
C13_Witness ==
    /\ outcome.kind = "Triggered"
    /\ Len(Invocations(log)) = 2
    /\ Len(Writes(log)) = 1
    /\ ~AccHas(_accumulator, Uuid(_executing_action))

\* C14: the first node invoked in a call receives the start arguments that were
\* supplied, and every later node invoked in the call receives none.
C14_StartArgumentsOnce ==
    [][Len(Invocations(log')) = Len(Invocations(log)) + 1
          => Invocations(log')[Len(Invocations(log'))].val
                = (IF Len(Invocations(log)) = 0 /\ start_arguments THEN 1 ELSE 0)]_vars

\* C14 witness: start arguments were supplied, and a second node was invoked
C14_Witness ==
    /\ Len(Invocations(log)) = 2
    /\ Invocations(log)[1].val = 1
    /\ Invocations(log)[2].val = 0

\* C15: execute on a workflow whose is_valid is false returns no result and does
\* nothing else: no start event, no invocation or branch evaluation, and the
\* accumulator, the flags, the execution id and the instances stay as they were;
\* nothing is ever logged for such a workflow.
C15_InvalidRefused ==
    /\ [](~is_valid => (log = <<>> /\ outcome.kind \in {"none", "Refused"}
                         /\ pc \in {"idle", "returned"}))
    /\ [][(~is_valid /\ pc = "idle" /\ pc' # "idle")
              => /\ pc' = "returned"
                 /\ outcome' = Outcome("Refused", NoResult)
                 /\ UNCHANGED <<log, _accumulator, _is_paused, _abort, _execution_id,
                                _executing_action, instances, pending, last_result>>]_vars

\* C15 witness: execute was refused while the pause flag was set, and the flag and
\* the execution id are as before
C15_Witness ==
    /\ ~is_valid
    /\ Stopped
    /\ outcome.kind = "Refused"
    /\ _is_paused
    /\ _execution_id = 0
    /\ log = <<>>

\* ------------------------------------------------------------- properties of the executor
\* C6 as stated: in every reachable state at most one worker holds a given
\* execution id.
C6_SingleOwner ==
    \A e \in ExecIds : Cardinality({w \in Workers : worker[w] = e}) <= 1

\* C7 as stated: pause(execution_id) returns true and forwards exactly one pause
\* message when the status it reads is running, and in every other case, an
\* execution id without a status record included, returns false and forwards nothing.
C7_PauseReturnsBool ==
    ret.op = "pause" =>
        /\ ret.value \in {"true", "false"}
        /\ ret.value = "true" <=> ret.seen = "running"
        /\ ret.sent = (IF ret.seen = "running" THEN 1 ELSE 0)

\* C8 as stated: resume(execution_id) returns true when the status it reads is
\* paused, and then submits one request with the same execution id, the saved
\* action id as start and resume set; in every other case, an unknown execution id
\* included, it returns false and submits nothing.
C8_ResumeReturnsBool ==
    ret.op = "resume" =>
        /\ ret.value \in {"true", "false"}
        /\ ret.value = "true" <=> ret.seen = "paused"
        /\ ret.value = "true" =>
              /\ Len(ret.submitted) = 1
              /\ ret.submitted[1].execution_id = ret.eid
              /\ ret.submitted[1].resume
              /\ ret.submitted[1].start \in ActionIds
              /\ status[ret.eid] = "pending" => ret.submitted[1].start = saved[ret.eid]
        /\ ret.value # "true" => ret.submitted = <<>>

\* ------------------------------------------------------------- get_branch on its own
\* Workflow.get_branch applied to every valid workflow, visited node and outcome of
\* the branch expressions: the state of execute right after its first action returned
InitBranch ==
    /\ start \in ActionIds
    /\ branches \in [BranchIdx -> [source_id : ActionIds, destination_id : ActionIds,
                                   priority : Priorities]]
    /\ is_valid = Validate(start, branches)
    /\ _is_paused = FALSE
    /\ _abort = FALSE
    /\ _accumulator = AccPut(InitAccumulator(branches), Uuid(start), 1)
    /\ _execution_id \in ExecIds
    /\ _executing_action = start
    /\ instances = {}
    /\ pc = "get_branch"
    /\ start_arguments = FALSE
    /\ last_result = 1
    /\ truth \in [DOMAIN branches -> BOOLEAN]
    /\ pending = BranchOrder(branches, start)
    /\ outcome = NoOutcome
    /\ abort_at = 0
    /\ log = <<Entry("WorkflowExecutionStart", NoneId, 0, {}),
               Entry("invoke", start, 0, {}),
               Entry("write", start, 1, {})>>
    /\ ExecutorInit
    /\ PureIdle

NextBranch ==
    \/ EvalBranch
    \/ NoBranch

SpecBranch == InitBranch /\ [][NextBranch]_vars

\* the node whose branches the latest get_branch call resolves, and what that
\* call has evaluated so far
Visited == Writes(log)[Len(Writes(log))].id
LastWriteAt == CHOOSE i \in 1..Len(log) :
                  /\ log[i].op = "write"
                  /\ \A j \in (i + 1)..Len(log) : log[j].op # "write"
VisitEvals == SelectSeq(SubSeq(log, LastWriteAt + 1, Len(log)), LAMBDA e : e.op = "eval")
Outgoing(id) == {b \in DOMAIN branches : branches[b].source_id = id}
Decided == pc \in {"check_paused", "complete"}

\* C9: once get_branch has returned, the next node is the destination of a branch
\* that has the visited node as source, evaluates true, and has the lowest priority
\* number among the branches of that source that evaluate true; if no branch of
\* that source evaluates true there is no next node.
C9_LowestTruePriority ==
    Decided =>
        LET cand == {b \in Outgoing(Visited) : truth[b]}
        IN /\ cand = {} <=> pc = "complete"
           /\ cand # {} =>
                 \E b \in cand :
                    /\ VisitEvals[Len(VisitEvals)].id = b
                    /\ _executing_action = branches[b].destination_id
                    /\ \A c \in cand : branches[b].priority <= branches[c].priority

\* C9 witness: two branches of the visited node evaluate true, the one later in the
\* list has the lower priority number and another destination, and it is taken
C9_Witness ==
    /\ Decided
    /\ Outgoing(Visited) = {1, 2}
    /\ truth[1] /\ truth[2]
    /\ branches[2].priority < branches[1].priority
    /\ branches[2].destination_id # branches[1].destination_id
    /\ _executing_action = branches[2].destination_id

\* C10: during a visit the branches of the visited node, and only they, are
\* evaluated in ascending order of priority (equal priorities in list order), each
\* at most once; every branch evaluated before the last one was false, so nothing
\* is evaluated after the first true branch; and no branch that precedes the taken
\* one in that order is left out.
C10_AscendingShortCircuit ==
    Len(Writes(log)) > 0 =>
        LET ev == VisitEvals
        IN /\ \A i \in 1..Len(ev) : ev[i].id \in Outgoing(Visited)
           /\ \A i, j \in 1..Len(ev) :
                 i < j => /\ ev[i].id # ev[j].id
                          /\ branches[ev[i].id].priority <= branches[ev[j].id].priority
                          /\ branches[ev[i].id].priority = branches[ev[j].id].priority
                                => ev[i].id < ev[j].id
                          /\ ev[i].val = 0
           /\ \A i \in 1..Len(ev) : ev[i].val = (IF truth[ev[i].id] THEN 1 ELSE 0)
           /\ Decided =>
                 \A b \in Outgoing(Visited) :
                    (\E i \in 1..Len(ev) : ev[i].id = b)
                       <=> \A c \in Outgoing(Visited) :
                              (truth[c] /\ c # b)
                                 => \/ branches[b].priority < branches[c].priority
                                    \/ (branches[b].priority = branches[c].priority /\ b < c)

\* C10 witness: the visited node has two branches that both evaluate true, and only
\* the one of lower priority number was evaluated
C10_Witness ==
    /\ Decided
    /\ Outgoing(Visited) = {1, 2}
    /\ truth[1] /\ truth[2]
    /\ branches[2].priority < branches[1].priority
    /\ Len(VisitEvals) = 1
    /\ VisitEvals[1].id = 2

\* ------------------------------------------------------------- validate on its own
\* no run has started on the workflow
RunIdle ==
    /\ _is_paused = FALSE
    /\ _abort = FALSE
    /\ _accumulator = InitAccumulator(branches)
    /\ _execution_id = 0
    /\ _executing_action = NoneId
    /\ instances = {}
    /\ pc = "idle"
    /\ start_arguments = FALSE
    /\ last_result = NoResult
    /\ truth = [b \in DOMAIN branches |-> FALSE]
    /\ pending = <<>>
    /\ outcome = NoOutcome
    /\ abort_at = 0
    /\ log = <<>>

\* Workflow.__init__ lines 42-53 for every choice of actions, nested workflows,
\* start and branches: the state in which line 55 calls validate
InitValidate ==
    /\ actions \in SUBSET ActionIds
    /\ child_workflows \in SUBSET {OtherId}
    /\ start \in {NoneId} \cup NodeIds
    /\ branches \in UNION {[1..n -> [source_id : NodeIds, destination_id : NodeIds,
                                      priority : {1}]] : n \in 0..NumBranches}
    /\ is_valid = FALSE
    /\ errors = NotValidated
    /\ RunIdle
    /\ ExecutorInit
    /\ expr = DefaultExpression
    /\ expr_result = NotExecuted
    /\ LaterIdle

\* Workflow.validate
ValidateWorkflow ==
    /\ errors = NotValidated
    /\ errors' = Validated(Errors(actions, start, branches))
    /\ is_valid' = (Errors(actions, start, branches) = <<>>)
    /\ UNCHANGED <<start, branches, actions, child_workflows, expr, expr_result, runVars,
                   dispatchVars, laterVars>>

NextValidate == ValidateWorkflow

SpecValidate == InitValidate /\ [][NextValidate]_vars

\* the errors validate stored for branch i
ErrorsOfBranch(i) == SelectSeq(errors.list, LAMBDA x : x.branch = i)

\* C16: validate records an error, and the workflow is invalid, if and only if the
\* actions list is non-empty and start is not the id of one of the actions, or some
\* branch has a source id or a destination id that is not the id of an action of
\* the workflow (the nodes of the workflow graph are its actions).
C16_ValidateErrors ==
    errors.validated =>
        /\ is_valid <=> errors.list = <<>>
        /\ errors.list # <<>>
              <=> \/ actions # {} /\ start \notin actions
                  \/ \E i \in DOMAIN branches :
                        \/ branches[i].source_id \notin actions
                        \/ branches[i].destination_id \notin actions

\* C16 witness: start and the branch sources are actions, one branch has a
\* destination that is no action, and that is the one error recorded
C16_Witness ==
    /\ errors.validated
    /\ start \in actions
    /\ Len(branches) = 2
    /\ \A i \in DOMAIN branches : branches[i].source_id \in actions
    /\ branches[1].destination_id \in actions
    /\ branches[2].destination_id \notin actions
    /\ Len(errors.list) = 1
    /\ errors.list[1].error = "destination"
    /\ ~is_valid

\* C17 as stated: validate reports no error for a branch whose destination is the
\* id of a nested workflow and not of an action, and a workflow whose start and
\* branch sources are actions and whose branch destinations are actions or nested
\* workflows is valid, so that execute accepts it.
C17_SubWorkflowDestination ==
    errors.validated =>
        /\ \A i \in DOMAIN branches :
              (branches[i].destination_id \in child_workflows \ actions
                  /\ branches[i].source_id \in actions)
                 => ErrorsOfBranch(i) = <<>>
        /\ (/\ actions # {} => start \in actions
            /\ \A i \in DOMAIN branches :
                  /\ branches[i].source_id \in actions
                  /\ branches[i].destination_id \in actions \cup child_workflows)
              => is_valid

\* ------------------------------------------------------------- execute of an expression
\* every expression of the bounds, with every outcome of its conditions
InitExpr ==
    /\ EngineIdle
    /\ ExecutorInit
    /\ actions = ActionIds
    /\ child_workflows = {}
    /\ errors = Validated(Errors(ActionIds, start, branches))
    /\ expr \in Expressions
    /\ expr_result = NotExecuted
    /\ LaterIdle

\* ConditionalExpression.execute(action_execution_strategy, data_in, accumulator)
ExpressionExecute ==
    /\ ~expr_result.done
    /\ expr_result' = [done |-> TRUE,
                       result |-> ConditionalExpression_execute(expr).result,
                       trace |-> ConditionalExpression_execute(expr).trace,
                       events |-> ConditionalExpression_execute(expr).events]
    /\ UNCHANGED <<start, branches, is_valid, actions, child_workflows, errors, expr,
                   runVars, dispatchVars, laterVars>>

NextExpr == ExpressionExecute

SpecExpr == InitExpr /\ [][NextExpr]_vars

\* the outcomes of the elements of expression e: its conditions, then its child
\* expressions
ElementOutcomes(e) ==
    e.conditions
    \o [j \in 1..Len(e.child_expressions)
           |-> ConditionalExpression_execute(e.child_expressions[j]).result]

\* C18: for an expression that is not negated and has at least one element, 'and'
\* gives true iff every condition and every child expression is true, and 'or'
\* gives true iff at least one condition or child expression is true.
C18_AndOr ==
    (expr_result.done /\ ~expr.is_negated /\ Len(ElementOutcomes(expr)) >= 1) =>
        LET o == ElementOutcomes(expr)
        IN /\ expr.operator = "and"
                 => (expr_result.result <=> \A i \in 1..Len(o) : o[i])
           /\ expr.operator = "or"
                 => (expr_result.result <=> \E i \in 1..Len(o) : o[i])

\* C18 witness: an 'and' whose conditions are all true and whose child expression
\* is false gave false
C18_Witness ==
    /\ expr_result.done
    /\ ~expr.is_negated
    /\ expr.operator = "and"
    /\ Len(expr.conditions) >= 1
    /\ \A i \in 1..Len(expr.conditions) : expr.conditions[i]
    /\ Len(expr.child_expressions) = 1
    /\ ~ConditionalExpression_execute(expr.child_expressions[1]).result
    /\ ~expr_result.result

\* C19: for an 'xor' expression that is not negated and has at least one element,
\* the result is true iff exactly one element, counting the conditions and the
\* child expressions together, is true.
C19_XorExactlyOne ==
    (expr_result.done /\ ~expr.is_negated /\ expr.operator = "xor"
        /\ Len(ElementOutcomes(expr)) >= 1) =>
        LET o == ElementOutcomes(expr)
        IN expr_result.result <=> Cardinality({i \in 1..Len(o) : o[i]}) = 1

\* C19 witness: an 'xor' of three true elements gave false
C19_Witness ==
    /\ expr_result.done
    /\ ~expr.is_negated
    /\ expr.operator = "xor"
    /\ Len(ElementOutcomes(expr)) = 3
    /\ \A i \in 1..3 : ElementOutcomes(expr)[i]
    /\ ~expr_result.result

\* C20 as stated: an expression whose conditions and child expressions are both
\* empty evaluates to true, for each operator.
C20_Original ==
    (expr_result.done /\ expr.conditions = <<>> /\ expr.child_expressions = <<>>)
        => expr_result.result

\* C20 as amended: an expression whose conditions and child expressions are both
\* empty evaluates, for each of 'and', 'or' and 'xor', to true when is_negated is
\* not set and to false when it is set, and executes no element.
C20_EmptyExpression ==
    (expr_result.done /\ expr.conditions = <<>> /\ expr.child_expressions = <<>>)
        => /\ expr_result.result <=> ~expr.is_negated
           /\ expr_result.trace = <<>>

\* C20 witness: an empty 'or' that is not negated gave true
C20_Witness ==
    /\ expr_result.done
    /\ expr.conditions = <<>>
    /\ expr.child_expressions = <<>>
    /\ expr.operator = "or"
    /\ ~expr.is_negated
    /\ expr_result.result

\* the expression that differs from e in the is_negated flag of its root only
Negated(e) == [e EXCEPT !.is_negated = ~e.is_negated]

\* C21: the expression that differs from the executed one only in the is_negated
\* flag of its root evaluates to the logical negation of the result, and executes
\* the same elements with the same outcomes: the negation is applied once, to the
\* result of the operator.
C21_NegationOnce ==
    expr_result.done =>
        LET t == ConditionalExpression_execute(Negated(expr))
        IN /\ t.result = ~expr_result.result
           /\ t.trace = expr_result.trace

\* C21 witness: a negated 'or' with a false condition and a true child expression
\* gave false
C21_Witness ==
    /\ expr_result.done
    /\ expr.is_negated
    /\ expr.operator = "or"
    /\ expr.conditions = <<FALSE>>
    /\ Len(expr.child_expressions) = 1
    /\ ConditionalExpression_execute(expr.child_expressions[1]).result
    /\ Len(expr_result.trace) = 2
    /\ ~expr_result.result

\* ------------------------------------------------------------- execute of a condition
\* every condition of the bounds with every behaviour of its collaborators, and
\* every data_in
InitCondition ==
    /\ EngineIdle
    /\ ExecutorInit
    /\ actions = ActionIds
    /\ child_workflows = {}
    /\ errors = Validated(Errors(ActionIds, start, branches))
    /\ expr = DefaultExpression
    /\ expr_result = NotExecuted
    /\ condition \in Conditions
    /\ cond_data_in \in Data
    /\ cond_result = ConditionNotExecuted
    /\ ArgumentIdle
    /\ SenderIdle
    /\ ReceiverIdle
    /\ LastIdle

\* Condition.execute(action_execution_strategy, data_in, accumulator)
ConditionExecute ==
    /\ ~cond_result.done
    /\ cond_result' = Condition_execute(condition, cond_data_in)
    /\ UNCHANGED <<start, branches, is_valid, actions, child_workflows, errors, expr,
                   expr_result, condition, cond_data_in, argumentVars, senderVars,
                   receiverVars, lastVars, runVars,
                   dispatchVars>>

NextCondition == ConditionExecute

SpecCondition == InitCondition /\ [][NextCondition]_vars

\* the events of the condition itself, after those of its transforms
OwnEvents == SubSeq(cond_result.events, Len(cond_result.calls) + 1, Len(cond_result.events))

\* C22: a condition whose validation fails or whose capability raises
\* ExecutionError returns False whatever is_negated is, and sends a ConditionError
\* event and no ConditionSuccess event; when the validation fails the capability
\* is not invoked; otherwise the condition returns the boolean of the capability,
\* inverted if and only if is_negated is set.
C22_ConditionFailClosed ==
    cond_result.done =>
        LET failed == condition.validation = "invalid" \/ condition.capability = "raises"
        IN /\ failed => /\ cond_result.result = FALSE
                        /\ OwnEvents = <<"ConditionError">>
           /\ condition.validation = "invalid" => ~cond_result.invoked
           /\ ~failed => /\ cond_result.invoked
                         /\ OwnEvents = <<"ConditionSuccess">>
                         /\ cond_result.result
                               <=> ((condition.capability = "true") # condition.is_negated)

\* C22 witness: a negated condition whose validation failed returned False
C22_Witness ==
    /\ cond_result.done
    /\ condition.is_negated
    /\ condition.validation = "invalid"
    /\ cond_result.result = FALSE
    /\ ~cond_result.invoked
    /\ OwnEvents = <<"ConditionError">>

\* the value the k-th transform of the condition was called with
InputOf(k) == IF k = 1 THEN cond_data_in ELSE cond_result.calls[k - 1].returned

\* C23: a transform whose validation fails or whose capability raises returns a
\* value equal to its input as it was when the transform was called and sends a
\* TransformError event, and the run goes on with the next transform and the
\* condition; a transform that succeeds returns the result of its capability.
C23_TransformFailOpen ==
    cond_result.done =>
        /\ Len(cond_result.calls) = Len(condition.transforms)
        /\ \A k \in DOMAIN cond_result.calls :
              LET t == condition.transforms[k]
                  x == cond_result.calls[k]
              IN /\ x.data_in = InputOf(k)
                 /\ t.outcome # "ok" => /\ x.returned = InputOf(k)
                                        /\ x.event = "TransformError"
                 /\ t.outcome = "ok" => /\ x.returned = t.result
                                        /\ x.event = "TransformSuccess"

\* C23 witness: a transform whose capability raised after it had altered its input
\* in place returned the value it was called with, and the transform after it ran
\* on that value
C23_Witness ==
    /\ cond_result.done
    /\ Len(condition.transforms) = 2
    /\ condition.transforms[1].outcome = "raises"
    /\ condition.transforms[1].mutates
    /\ cond_result.calls[1].returned = cond_data_in
    /\ cond_result.calls[2].data_in = cond_data_in
    /\ cond_result.calls[2].event = "TransformSuccess"

\* ------------------------------------------------------------- arguments on their own
\* everything else is idle
ArgumentsOnly ==
    /\ EngineIdle
    /\ ExecutorInit
    /\ actions = ActionIds
    /\ child_workflows = {}
    /\ errors = Validated(Errors(ActionIds, start, branches))
    /\ expr = DefaultExpression
    /\ expr_result = NotExecuted
    /\ ConditionIdle
    /\ SenderIdle
    /\ ReceiverIdle
    /\ LastIdle

\* every list of up to MaxArguments Arguments to encode, or every dict to load
InitArgument ==
    /\ ArgumentsOnly
    /\ packet = NotEncoded
    /\ arg_valid = "unset"
    /\ \/ /\ arguments \in UNION {[1..n -> Arguments] : n \in 0..MaxArguments}
          /\ arg_data = [name |-> "name1", value |-> Absent, reference |-> Absent]
       \/ /\ arguments = <<>>
          /\ arg_data \in ArgumentData

\* ArgumentSchema().load(data): the schema validator
ValidateArgument ==
    /\ arg_valid = "unset"
    /\ arg_valid' = IF validate_argument(arg_data) THEN "accepted" ELSE "rejected"
    /\ UNCHANGED <<start, branches, is_valid, actions, child_workflows, errors, expr,
                   expr_result, conditionVars, arguments, packet, arg_data, senderVars,
                   receiverVars, lastVars, runVars,
                   dispatchVars>>

\* _add_arguments_to_proto(message.arguments, arguments) on an empty message
AddArgumentsToProto ==
    /\ ~packet.done
    /\ packet' = [done |-> TRUE, arguments |-> _add_arguments_to_proto(arguments)]
    /\ UNCHANGED <<start, branches, is_valid, actions, child_workflows, errors, expr,
                   expr_result, conditionVars, arguments, arg_data, arg_valid, senderVars,
                   receiverVars, lastVars, runVars,
                   dispatchVars>>

NextArgument == ValidateArgument \/ AddArgumentsToProto

SpecArgument == InitArgument /\ [][NextArgument]_vars

\* the value, or the reference, of the loaded dict is populated
ValuePopulated == arg_data.value # Absent
ReferencePopulated == arg_data.reference \notin {Absent, None, Text("")}

\* C24: the validation rejects a dict with both a value and a reference and a
\* dict with neither, and a dict it accepts has exactly one of the two populated.
C24_ExactlyOne ==
    arg_valid # "unset" =>
        /\ (ValuePopulated /\ ReferencePopulated) => arg_valid = "rejected"
        /\ (~ValuePopulated /\ ~ReferencePopulated) => arg_valid = "rejected"
        /\ arg_valid = "accepted" => (ValuePopulated # ReferencePopulated)

\* C24 witness: a dict with a value and a reference was rejected
C24_Witness ==
    /\ arg_valid = "rejected"
    /\ arg_data.value = PyInt(46)
    /\ arg_data.reference = Text(ToString(1))

\* C25: the encoded message has as many arguments as the list, in the same order
\* and with the same names; an argument with a literal value has the string form
\* of the value as value (46 becomes '46') and an empty selection; an argument with
\* a reference has '' as value, the string form of the id as reference, and one
\* selection entry for each element of its selection.
C25_ArgumentsEncoded ==
    packet.done =>
        /\ Len(packet.arguments) = Len(arguments)
        /\ \A i \in DOMAIN arguments :
              LET a == arguments[i]
                  m == packet.arguments[i]
              IN /\ m.name = a.name
                 /\ a.value # None =>
                       /\ m.value[1] = "str"
                       /\ m.value = StringForm(a.value)
                       /\ a.value = PyInt(46) => m.value = Text("46")
                       /\ m.selection = <<>>
                 /\ a.reference # None =>
                       /\ m.value = Text("")
                       /\ m.reference = StringForm(a.reference)
                       /\ Len(m.selection) = Len(a.selection)

\* C25 witness: Argument('name1', value=46) and a reference with two selection
\* elements were encoded, in this order
C25_Witness ==
    /\ packet.done
    /\ Len(arguments) = 2
    /\ arguments[1].value = PyInt(46)
    /\ packet.arguments[1].value = Text("46")
    /\ arguments[2].reference = Uuid(1)
    /\ Len(arguments[2].selection) = 2
    /\ packet.arguments[2].name = arguments[2].name
    /\ Len(packet.arguments[2].selection) = 2

\* ------------------------------------------------------------- the sender on its own
\* a sender that has sent nothing, and workers that hold any executions
InitSender ==
    /\ EngineIdle
    /\ status = [e \in ExecIds |-> "none"]
    /\ saved = [e \in ExecIds |-> NoneId]
    /\ queue = <<>>
    /\ ctrl = <<>>
    /\ worker \in [Workers -> {0} \cup ExecIds]
    /\ wpause = [w \in Workers |-> FALSE]
    /\ wabort = [w \in Workers |-> FALSE]
    /\ rpc = [c \in Callers |-> 0]
    /\ ret = Ret("none", 0, "none", "none", 0, <<>>)
    /\ next_id = 1
    /\ wf_eid = 0
    /\ PureIdle

\* ZmqWorkflowCommunicationSender.pause_workflow(workflow_execution_id)
SenderPause(eid) ==
    /\ Len(comm_socket) < MaxSent
    /\ comm_socket' = Append(comm_socket, _create_workflow_control_message("PAUSE", eid))
    /\ sender' = SenderCall("pause_workflow", eid, sender.calls + 1)
    /\ UNCHANGED <<start, branches, is_valid, runVars, dispatchVars, actions,
                   child_workflows, errors, expr, expr_result, conditionVars,
                   argumentVars, receiverVars, lastVars>>

\* ZmqWorkflowCommunicationSender.abort_workflow(workflow_execution_id)
SenderAbort(eid) ==
    /\ Len(comm_socket) < MaxSent
    /\ comm_socket' = Append(comm_socket, _create_workflow_control_message("ABORT", eid))
    /\ sender' = SenderCall("abort_workflow", eid, sender.calls + 1)
    /\ UNCHANGED <<start, branches, is_valid, runVars, dispatchVars, actions,
                   child_workflows, errors, expr, expr_result, conditionVars,
                   argumentVars, receiverVars, lastVars>>

\* ZmqWorkflowCommunicationSender.send_exit_to_workers()
SendExitToWorkers ==
    /\ Len(comm_socket) < MaxSent
    /\ comm_socket' = Append(comm_socket, SerializeToString(ExitPacket))
    /\ sender' = SenderCall("send_exit_to_workers", 0, sender.calls + 1)
    /\ UNCHANGED <<start, branches, is_valid, runVars, dispatchVars, actions,
                   child_workflows, errors, expr, expr_result, conditionVars,
                   argumentVars, receiverVars, lastVars>>

NextSender ==
    \/ \E eid \in ExecIds : SenderPause(eid)
    \/ \E eid \in ExecIds : SenderAbort(eid)
    \/ SendExitToWorkers

SpecSender == InitSender /\ [][NextSender]_vars

\* the message the latest call put on the socket, decoded
LastSent == ParseFromString(comm_socket[Len(comm_socket)])

\* C26: every call of the sender puts exactly one message on the socket:
\* pause_workflow(id) a control message of type PAUSE that carries id,
\* abort_workflow(id) one of type ABORT that carries id, send_exit_to_workers a
\* packet of type EXIT; and a control message that is decoded gives the type and
\* the execution id it was created with.
C26_OneMessagePerCall ==
    /\ Len(comm_socket) = sender.calls
    /\ sender.op = "pause_workflow" => LastSent = ControlPacket("PAUSE", sender.eid)
    /\ sender.op = "abort_workflow" => LastSent = ControlPacket("ABORT", sender.eid)
    /\ sender.op = "send_exit_to_workers" => LastSent.type = "EXIT"
    /\ \A t \in ControlTypes, eid \in ExecIds :
          LET m == ParseFromString(_create_workflow_control_message(t, eid))
          IN /\ m.workflow_control_message.type = t
             /\ m.workflow_control_message.workflow_execution_id = eid

\* C26 witness: pause_workflow, then abort_workflow, then send_exit_to_workers put
\* three messages on the socket
C26_Witness ==
    /\ Len(comm_socket) = 3
    /\ ParseFromString(comm_socket[1]) = ControlPacket("PAUSE", 1)
    /\ ParseFromString(comm_socket[2]) = ControlPacket("ABORT", 1)
    /\ sender.op = "send_exit_to_workers"
    /\ LastSent = ExitPacket

\* C27 as stated: a pause or an abort for an execution id that no worker holds is
\* a no-op: the call puts no message on the socket and changes no worker's
\* execution.
C27_UnownedNoOp ==
    [][(/\ sender'.calls # sender.calls
        /\ sender'.op \in {"pause_workflow", "abort_workflow"}
        /\ \A w \in Workers : worker[w] # sender'.eid)
          => /\ comm_socket' = comm_socket
             /\ worker' = worker]_vars

\* ------------------------------------------------------------- the receiver and its waiter
InitReceiver == EngineIdle /\ ExecutorInit /\ PureIdle

\* everything but the receiver and the waiter
notReceiverVars == <<start, branches, is_valid, runVars, dispatchVars, actions,
                     child_workflows, errors, expr, expr_result, conditionVars,
                     argumentVars, senderVars, lastVars>>

\* a run ends Paused, Aborted or Completed and its worker sends the event of
\* workflow.py lines 162, 167 or 243 to the receiver
RunEnds(e, how) ==
    /\ runs[e] = "running"
    /\ runs' = [runs EXCEPT ![e] = how]
    /\ results_sock' = Append(results_sock, Message(EndEvent(how), "workflow", e))
    /\ UNCHANGED <<workflows_executed, counted, waiter, receiving, notReceiverVars>>

\* a paused run is resumed; the worker sends WorkflowExecutionStart (line 143)
RunResumes(e) ==
    /\ runs[e] = "paused"
    /\ Len(results_sock) < MaxResults
    /\ runs' = [runs EXCEPT ![e] = "running"]
    /\ results_sock' = Append(results_sock, Message("WorkflowExecutionStart", "workflow", e))
    /\ UNCHANGED <<workflows_executed, counted, waiter, receiving, notReceiverVars>>

\* a message arrives in which to_event_callback finds no event, or the name of an
\* event and no sender
Unresolvable(ev, sd) ==
    /\ (ev = "none") # (sd = "none")
    /\ Len(results_sock) < MaxResults
    /\ results_sock' = Append(results_sock, Message(ev, sd, 0))
    /\ UNCHANGED <<workflows_executed, runs, counted, waiter, receiving, notReceiverVars>>

\* receive_results lines 46-56 and _send_callback lines 61-71: while the loop
\* runs the oldest message is taken from the socket, and counted when it names a
\* terminal event; the call of _send_callback in line 56 has no handler around it,
\* so the error of a message that cannot be converted ends the loop
ReceiveResults ==
    /\ receiving
    /\ results_sock # <<>>
    /\ LET m == Head(results_sock)
       IN /\ results_sock' = Tail(results_sock)
          /\ receiving' = (m.event # "malformed")
          /\ IF CountsMessage(m)
             THEN /\ workflows_executed' = workflows_executed + 1
                  /\ counted' = IF m.eid \in Runs
                                THEN [counted EXCEPT ![m.eid] = @ + 1]
                                ELSE counted
             ELSE UNCHANGED <<workflows_executed, counted>>
    /\ UNCHANGED <<runs, waiter, notReceiverVars>>

\* wait_and_reset(num_workflows) lines 93-94
WaitStart(n) ==
    /\ waiter.pc \in {"idle", "returned"}
    /\ waiter' = Waiter("loop", n, 0, "none")
    /\ UNCHANGED <<results_sock, workflows_executed, runs, counted, receiving, notReceiverVars>>

\* wait_and_reset with 'at least' in the place of the equality of line 97
WaitPoll_AtLeast ==
    /\ waiter.pc = "loop"
    /\ waiter.timeout < MaxPolls
    /\ waiter' = IF workflows_executed >= waiter.n
                 THEN Waiter("reset", waiter.n, waiter.timeout, "break")
                 ELSE Waiter("loop", waiter.n, waiter.timeout + 1, "none")
    /\ UNCHANGED <<results_sock, workflows_executed, runs, counted, receiving, notReceiverVars>>

\* wait_and_reset lines 96-100: one turn of the loop, the test of the count and
\* either the break or the sleep
WaitPoll ==
    /\ waiter.pc = "loop"
    /\ waiter.timeout < MaxPolls
    /\ waiter' = IF waiter.n = workflows_executed
                 THEN Waiter("reset", waiter.n, waiter.timeout, "break")
                 ELSE Waiter("loop", waiter.n, waiter.timeout + 1, "none")
    /\ UNCHANGED <<results_sock, workflows_executed, runs, counted, receiving, notReceiverVars>>

\* wait_and_reset line 96: the loop ends because timeout has reached shutdown
WaitTimeout ==
    /\ waiter.pc = "loop"
    /\ waiter.timeout >= MaxPolls
    /\ waiter' = Waiter("reset", waiter.n, waiter.timeout, "timeout")
    /\ UNCHANGED <<results_sock, workflows_executed, runs, counted, receiving, notReceiverVars>>

\* wait_and_reset line 101, and the return
WaitReset ==
    /\ waiter.pc = "reset"
    /\ workflows_executed' = 0
    /\ waiter' = Waiter("returned", waiter.n, waiter.timeout, waiter.how)
    /\ UNCHANGED <<results_sock, runs, counted, receiving, notReceiverVars>>

NextReceiver ==
    \/ \E e \in Runs, how \in {"paused", "aborted", "completed"} : RunEnds(e, how)
    \/ \E e \in Runs : RunResumes(e)
    \/ \E ev \in {"none", "WorkflowShutdown"}, sd \in {"none", "workflow"} :
          Unresolvable(ev, sd)
    \/ ReceiveResults
    \/ \E n \in Runs : WaitStart(n)
    \/ WaitPoll
    \/ WaitTimeout
    \/ WaitReset

SpecReceiver == InitReceiver /\ [][NextReceiver]_vars

\* the event that ended run e is still on the socket
InFlight(e) ==
    \E i \in DOMAIN results_sock :
       /\ results_sock[i].eid = e
       /\ results_sock[i].event \in {"WorkflowShutdown", "WorkflowAborted"}

\* C28: the count goes up by exactly one for each execution that reaches Completed
\* or Aborted, when the receiver takes the event that ended it, and no other
\* received message changes it, an unresolvable one included.
C28_CountsTerminal ==
    /\ [](\A e \in Runs :
             /\ counted[e] <= 1
             /\ counted[e] = 1 <=> (runs[e] \in {"completed", "aborted"} /\ ~InFlight(e)))
    /\ [][(results_sock # <<>> /\ results_sock' = Tail(results_sock)) =>
             LET m == Head(results_sock)
                 ends == /\ m.eid \in Runs
                         /\ runs[m.eid] \in {"completed", "aborted"}
                         /\ m.event = EndEvent(runs[m.eid])
             IN workflows_executed' = workflows_executed + (IF ends THEN 1 ELSE 0)]_vars

\* C28 witness: one run completed, the other was aborted, both events were
\* received and the count is two
C28_Witness ==
    /\ runs[1] = "completed"
    /\ runs[2] = "aborted"
    /\ counted[1] = 1
    /\ counted[2] = 1
    /\ results_sock = <<>>
    /\ workflows_executed = 2

\* C29 as stated: under every interleaving of the receiver with callers of
\* wait_and_reset the count never decreases and no counted completion is lost: the
\* only step that lowers the count is the reset of a wait that saw its
\* num_workflows completions, and it takes exactly those out of the count.
C29_NoCompletionLost ==
    [][\/ workflows_executed' >= workflows_executed
       \/ /\ waiter.pc = "reset"
          /\ waiter.how = "break"
          /\ workflows_executed = waiter.n]_vars

\* C30 as stated: a wait whose loop has not timed out leaves the loop when the
\* count has reached num_workflows, also when further completions were counted
\* before the waiter looked at the count.
C30_Original ==
    [][(/\ waiter.pc = "loop"
        /\ waiter.timeout < MaxPolls
        /\ waiter' # waiter
        /\ workflows_executed >= waiter.n)
          => waiter'.pc = "reset"]_vars

\* C30 as amended: a wait leaves its loop before the timeout exactly when a poll
\* finds the count equal to num_workflows; a poll that finds any other count, a
\* larger one included, sleeps and polls again, and the wait then ends only when
\* the timeout has expired.
C30_ExactlyN ==
    /\ [](waiter.how = "timeout" => waiter.timeout >= MaxPolls)
    /\ [][(/\ waiter.pc = "loop"
           /\ waiter.timeout < MaxPolls
           /\ waiter' # waiter)
             => IF workflows_executed = waiter.n
                THEN waiter'.pc = "reset" /\ waiter'.how = "break"
                ELSE waiter'.pc = "loop" /\ waiter'.timeout = waiter.timeout + 1]_vars

\* C30 witness: two completions were counted before a wait for one looked at the
\* count, and the wait ended by its timeout
C30_Witness ==
    /\ waiter.pc = "reset"
    /\ waiter.how = "timeout"
    /\ waiter.n = 1
    /\ workflows_executed = 2

\* ------------------------------------------------------------- the loop of the receiver
\* bytes arrive that are no message of the protocol: to_event_callback raises the
\* decoding error of the wire format
Malformed ==
    /\ Len(results_sock) < MaxResults
    /\ results_sock' = Append(results_sock, Message("malformed", "none", 0))
    /\ UNCHANGED <<workflows_executed, runs, counted, waiter, receiving, notReceiverVars>>

NextCollector ==
    \/ \E e \in Runs, how \in {"paused", "aborted", "completed"} : RunEnds(e, how)
    \/ \E ev \in {"none", "WorkflowShutdown"}, sd \in {"none", "workflow"} :
          Unresolvable(ev, sd)
    \/ Malformed
    \/ ReceiveResults

SpecCollector == InitReceiver /\ [][NextCollector]_vars

\* C31 as stated: no received message stops the loop of the collector: a message
\* that is malformed or cannot be resolved is dropped, the count is not changed by
\* it, and every message that is on the socket afterwards is still taken by the
\* loop.
C31_LoopSurvives ==
    /\ [](results_sock # <<>> => receiving)
    /\ [][(results_sock # <<>> /\ results_sock' = Tail(results_sock)) =>
             (~CountsMessage(Head(results_sock))
                 => /\ workflows_executed' = workflows_executed
                    /\ receiving')]_vars

\* ------------------------------------------------------------- shutdown of the pool
InitPool == EngineIdle /\ ExecutorInit /\ PureIdle

\* everything but the pool
notPoolVars == <<start, branches, is_valid, runVars, dispatchVars, actions,
                 child_workflows, errors, expr, expr_result, conditionVars,
                 argumentVars, senderVars, receiverVars, apiVars>>

\* a worker process ends: it has received Exit or a signal, or it has crashed
ProcessExits(w) ==
    /\ pids[w] = "alive"
    /\ pids' = [pids EXCEPT ![w] = "exited"]
    /\ UNCHANGED <<signals, pool, notPoolVars>>

\* shutdown_pool lines 106-109: the Exit broadcast, then the manager thread
ShutdownPool ==
    /\ pool.pc = "idle"
    /\ signals' = Append(signals, Signal("Exit", 0, FALSE))
    /\ pool' = Pool("loop", 1, FALSE)
    /\ UNCHANGED <<pids, notPoolVars>>

\* shutdown_pool lines 111-114: the next process of pids; SIGABRT when it is alive
SignalProcess ==
    /\ pool.pc = "loop"
    /\ pool.i \in Processes
    /\ IF pids[pool.i] = "alive"
       THEN /\ signals' = Append(signals, Signal("SIGABRT", pool.i, TRUE))
            /\ pool' = Pool("join", pool.i, FALSE)
       ELSE /\ pool' = Pool("loop", pool.i + 1, FALSE)
            /\ UNCHANGED signals
    /\ UNCHANGED <<pids, notPoolVars>>

\* shutdown_pool line 115: p.join(timeout=3) returns, the process has ended or
\* the three seconds are over
JoinProcess ==
    /\ pool.pc = "join"
    /\ pool' = Pool("kill", pool.i, pids[pool.i] = "alive")
    /\ UNCHANGED <<pids, signals, notPoolVars>>

\* shutdown_pool lines 116-119: SIGKILL to the pid of the process, whatever the
\* join found; the OSError for a pid that is gone is swallowed
KillProcess ==
    /\ pool.pc = "kill"
    /\ signals' = Append(signals, Signal("SIGKILL", pool.i, pool.alive))
    /\ pids' = [pids EXCEPT ![pool.i] = "exited"]
    /\ pool' = Pool("loop", pool.i + 1, FALSE)
    /\ UNCHANGED notPoolVars

\* shutdown_pool lines 120-130: the loop is over, the receiver thread is joined,
\* cleanup_threading, return
ShutdownReturns ==
    /\ pool.pc = "loop"
    /\ pool.i \notin Processes
    /\ pool' = Pool("returned", pool.i, FALSE)
    /\ UNCHANGED <<pids, signals, notPoolVars>>

NextPool ==
    \/ \E w \in Processes : ProcessExits(w)
    \/ ShutdownPool
    \/ SignalProcess
    \/ JoinProcess
    \/ KillProcess
    \/ ShutdownReturns

SpecPool == InitPool /\ [][NextPool]_vars

\* C32 as stated: in the shutdown of the pool the Exit broadcast comes before
\* every signal to a process; a worker gets the hard kill only after its graceful
\* signal and the join that follows it, and only if it was still alive when that
\* join timed out; when shutdown returns no worker process is alive.
C32_ShutdownEscalation ==
    /\ \A k \in DOMAIN signals :
          signals[k].sig # "Exit" =>
             \E j \in 1..(k - 1) : signals[j].sig = "Exit"
    /\ \A k \in DOMAIN signals :
          signals[k].sig = "SIGKILL" =>
             /\ \E j \in 1..(k - 1) :
                   signals[j].sig = "SIGABRT" /\ signals[j].w = signals[k].w
             /\ signals[k].alive
    /\ pool.pc = "returned" => \A w \in Processes : pids[w] = "exited"

\* ------------------------------------------------------------- errors in the node loop
\* C33 as stated: when the invocation of a node raises during the node loop, every
\* app instance the run has acquired so far is shut down before the error leaves
\* execute.
C33_ReleasedOnError ==
    pc = "raised" => instances = {}

\* ------------------------------------------------------------- the chain of transforms
\* the transforms of the condition, up to the k-th, whose capability returned
Succeeded(k) == {j \in 1..k : condition.transforms[j].outcome = "ok"}

\* the output of the latest of the first k transforms that succeeded, and data_in
\* when none of them did
ChainValue(k) ==
    IF Succeeded(k) = {} THEN cond_data_in
    ELSE condition.transforms[CHOOSE j \in Succeeded(k) :
                                  \A i \in Succeeded(k) : i <= j].result

\* C36: a condition applies its transforms in list order, the first on data_in and
\* each later one on the output of the one before it; the value bound to the data
\* parameter of the condition is the output of the last transform; a transform
\* that fails in the middle of the chain hands its own input to the next one.
C36_TransformChain ==
    cond_result.done =>
        /\ Len(cond_result.calls) = Len(condition.transforms)
        /\ \A k \in DOMAIN cond_result.calls :
              /\ cond_result.calls[k].data_in = ChainValue(k - 1)
              /\ cond_result.calls[k].returned = ChainValue(k)
              /\ cond_result.calls[k].event =
                    IF condition.transforms[k].outcome = "ok"
                    THEN "TransformSuccess" ELSE "TransformError"
        /\ cond_result.data = ChainValue(Len(condition.transforms))

\* C36 witness: the first transform turned data_in into another value, the second
\* failed on that value, and the value of the first was bound to the data parameter
C36_Witness ==
    /\ cond_result.done
    /\ Len(condition.transforms) = 2
    /\ condition.transforms[1].outcome = "ok"
    /\ condition.transforms[1].result # cond_data_in
    /\ condition.transforms[2].outcome = "invalid"
    /\ cond_result.calls[2].data_in = condition.transforms[1].result
    /\ cond_result.data = condition.transforms[1].result

\* ------------------------------------------------------------- a failing condition under a negation
\* Branch.execute as get_branch uses it (workflow.py lines 222-223): the
\* destination of the branch when its expression is true, and no destination
\* otherwise
Branch_execute(branch, result) ==
    IF result THEN branch.destination_id ELSE NoneId

\* an expression whose only element is the condition that was executed
OnlyCondition(op, negated) ==
    [operator |-> op, is_negated |-> negated, conditions |-> <<cond_result.result>>,
     child_expressions |-> <<>>]

\* the condition failed: its arguments were not valid or its capability raised
ConditionFailed ==
    condition.validation = "invalid" \/ condition.capability = "raises"

\* C39: the False of a failing condition is an operand like any other: an
\* expression with is_negated set whose only element is a condition that fails
\* validation or raises evaluates to True, under each operator, and the branch it
\* gates is taken.
C39_NegatedFailureTaken ==
    (cond_result.done /\ ConditionFailed) =>
        \A op \in Operators, b \in BranchRecords :
           /\ ConditionalExpression_execute(OnlyCondition(op, TRUE)).result = TRUE
           /\ Branch_execute(b, ConditionalExpression_execute(OnlyCondition(op, TRUE)).result)
                 = b.destination_id
           /\ ConditionalExpression_execute(OnlyCondition(op, FALSE)).result = FALSE

\* C39 witness: a condition with is_negated set raised, its result is False, and
\* the negated expression around it is True
C39_Witness ==
    /\ cond_result.done
    /\ condition.validation = "ok"
    /\ condition.capability = "raises"
    /\ condition.is_negated
    /\ cond_result.result = FALSE
    /\ ConditionalExpression_execute(OnlyCondition("and", TRUE)).result = TRUE

\* ------------------------------------------------------------- order of evaluation
\* the elements of the executed expression that were true, among the first k of
\* the trace
TrueAmong(k) == {i \in 1..k : expr_result.trace[i].value}

\* the result of the operator, before the negation
Raw == IF expr.is_negated THEN ~expr_result.result ELSE expr_result.result

\* C40: one evaluation of an expression executes its conditions in list order
\* before any of its child expressions; it stops as soon as the result is decided,
\* 'and' at the first false element, 'or' at the first true one, 'xor' at the
\* second true one, and executes no element after that; it sends exactly one
\* expression-true or expression-false event, the one that matches the result it
\* returns.
C40_OrderAndShortCircuit ==
    expr_result.done =>
        LET t == expr_result.trace
            n == Len(t)
            c == Len(expr.conditions)
            o == ElementOutcomes(expr)
            children == {i \in 1..n : t[i].kind = "expression"}
        IN /\ n <= Len(o)
           /\ \A i \in 1..n :
                 /\ t[i].kind = IF i <= c THEN "condition" ELSE "expression"
                 /\ t[i].index = IF i <= c THEN i ELSE i - c
                 /\ t[i].value = o[i]
           /\ expr.operator = "and" =>
                 /\ \A i \in 1..(n - 1) : t[i].value
                 /\ n < Len(o) => ~t[n].value
           /\ expr.operator = "or" =>
                 /\ \A i \in 1..(n - 1) : ~t[i].value
                 /\ n < Len(o) => t[n].value
           /\ expr.operator = "xor" =>
                 /\ Cardinality(TrueAmong(n - 1)) <= 1
                 /\ n < Len(o) => Cardinality(TrueAmong(n)) = 2
           /\ Len(expr_result.events) = Cardinality(children) + 1
           /\ expr_result.events[Len(expr_result.events)] = EventFor(expr_result.result)
           /\ \A i \in children : t[i].events = <<EventFor(t[i].value)>>

\* C40 witness: an 'or' with two conditions and a child expression stopped at its
\* second condition, the first true one, did not execute the child expression, and
\* sent the one event of its result
C40_Witness ==
    /\ expr_result.done
    /\ expr.operator = "or"
    /\ ~expr.is_negated
    /\ expr.conditions = <<FALSE, TRUE>>
    /\ Len(expr.child_expressions) = 1
    /\ Len(expr_result.trace) = 2
    /\ expr_result.events = <<"ConditionalExpressionTrue">>

\* ------------------------------------------------------------- flags at the end of the run
\* C38: a pause or abort flag is cleared only by the boundary check that reports
\* it: the step that clears the pause flag returns Paused and the one that clears
\* the abort flag returns Aborted; a call that ends with the completion result has
\* emitted neither event and leaves both flags as they were, so a flag set while
\* the last node was executing is still set after the call has returned.
C38_FlagOutlivesCompletion ==
    /\ [][/\ (_is_paused /\ ~_is_paused') =>
              (pc = "check_paused" /\ pc' = "returned" /\ outcome'.kind = "Paused")
          /\ (_abort /\ ~_abort') =>
              (pc = "check_abort" /\ pc' = "returned" /\ outcome'.kind = "Aborted")
          /\ (pc = "complete" /\ pc' = "returned") =>
              (_is_paused' = _is_paused /\ _abort' = _abort)]_vars
    /\ []((pc = "returned" /\ outcome.kind = "Result") =>
              /\ EventsNamed(log, "WorkflowPaused") = <<>>
              /\ EventsNamed(log, "WorkflowAborted") = <<>>)

\* C38 witness: abort was called while the last node of the run was executing
\* and pause after it, no branch led on, and the call returned the completion
\* result with both flags set
C38_Witness ==
    /\ pc = "returned"
    /\ outcome.kind = "Result"
    /\ _abort
    /\ _is_paused
    /\ abort_at = Len(Invocations(log))
    /\ abort_at >= 1
    /\ EventsNamed(log, "WorkflowAborted") = <<>>

\* ------------------------------------------------------------- lookups in the app apis
InitApi ==
    /\ EngineIdle
    /\ ExecutorInit
    /\ actions = ActionIds
    /\ child_workflows = {}
    /\ errors = Validated(Errors(ActionIds, start, branches))
    /\ expr = DefaultExpression
    /\ expr_result = NotExecuted
    /\ ConditionIdle
    /\ ArgumentIdle
    /\ SenderIdle
    /\ ReceiverIdle
    /\ PoolIdle
    /\ app_apis \in StoredApis
    /\ api_call = NotLooked

\* one call of a lookup for the app and a name
GetApi(fn) ==
    /\ ~api_call.done
    /\ api_call' = ApiLookup(fn, app_apis)
    /\ UNCHANGED <<start, branches, is_valid, actions, child_workflows, errors, expr,
                   expr_result, conditionVars, argumentVars, senderVars, receiverVars,
                   poolVars, app_apis, runVars, dispatchVars>>

NextApi == \E fn \in Lookups : GetApi(fn)

SpecApi == InitApi /\ [][NextApi]_vars

\* C34 as stated: the three lookups fail only with the declared kinds: UnknownApp
\* when the app has no api entry, the error of the function when the app is there
\* and lacks the function, and no other error for any app and name.
C34_DeclaredErrorsOnly ==
    api_call.done =>
        /\ api_call.outcome \in {"returned", "UnknownApp", UnknownFunction(api_call.fn)}
        /\ app_apis.kind \in {"none", "empty"} => api_call.outcome = "UnknownApp"
        /\ (app_apis.kind = "api"
              /\ app_apis[SectionOf(api_call.fn)] \in {"no_section", "no_entry"})
                => api_call.outcome = UnknownFunction(api_call.fn)

\* ------------------------------------------------------------- resume of a paused run
\* resumes of one execution
MaxResumes == 1

\* resume with the start of the workflow in the place of the saved action
Resume_FromStart ==
    /\ pc = "returned"
    /\ outcome.kind = "Paused"
    /\ Len(EventsNamed(log, "WorkflowExecutionStart")) <= MaxResumes
    /\ start_arguments' = FALSE
    /\ log' = Append(log, Entry("WorkflowExecutionStart", NoneId, 0, {}))
    /\ _executing_action' = get_action_by_id(start)
    /\ pc' = "check_paused"
    /\ outcome' = NoOutcome
    /\ UNCHANGED <<workflowVars, abort_at, _is_paused, _abort, _accumulator, _execution_id,
                   instances, last_result, truth, pending>>

\* resume_workflow lines 204-209 and execute lines 140-148: a new call of execute
\* for the same execution id whose start is the action that was current when
\* Paused was emitted (get_executing_action_id, lines 262-268); the actions
\* generator begins at that action and the loop begins with its pause check
Resume ==
    /\ pc = "returned"
    /\ outcome.kind = "Paused"
    /\ Len(EventsNamed(log, "WorkflowExecutionStart")) <= MaxResumes
    /\ start_arguments' = FALSE
    /\ log' = Append(log, Entry("WorkflowExecutionStart", NoneId, 0, {}))
    /\ _executing_action' = get_action_by_id(_executing_action)
    /\ pc' = "check_paused"
    /\ outcome' = NoOutcome
    /\ UNCHANGED <<workflowVars, abort_at, _is_paused, _abort, _accumulator, _execution_id,
                   instances, last_result, truth, pending>>

NextResume == Next \/ Resume

SpecResume == Init /\ [][NextResume]_vars

\* the invocations and branch evaluations of the execution, over all its calls
Steps == SelectSeq(log, LAMBDA e : e.op \in {"invoke", "eval"})

\* the latest invocation before step i of q, 0 when there is none
InvokeBefore(q, i) ==
    IF \E p \in 1..(i - 1) : q[p].op = "invoke"
    THEN CHOOSE p \in 1..(i - 1) :
            /\ q[p].op = "invoke"
            /\ \A r \in (p + 1)..(i - 1) : q[r].op # "invoke"
    ELSE 0

\* C37: when a run is paused at an action boundary and resumed by a new call of
\* execute that starts at the node that was current when Paused was emitted, the
\* nodes invoked over the two calls are those of one uninterrupted run with the
\* same condition outcomes: after an invoked node the branches of that node are
\* evaluated once each, in their order, up to the first true one, and the next node
\* invoked is its destination; no node is skipped or invoked twice, and no branch
\* is evaluated again after the resume.
C37_ResumeContinues ==
    LET q == Steps
    IN \A i \in DOMAIN q :
          LET p == InvokeBefore(q, i)
          IN IF p = 0 THEN i = 1 /\ q[i].op = "invoke"
             ELSE LET order == BranchOrder(branches, q[p].id)
                      n == IF q[i].op = "invoke" THEN i - p - 1 ELSE i - p
                  IN /\ n >= 1
                     /\ n <= Len(order)
                     /\ \A j \in 1..n : q[p + j].op = "eval" /\ q[p + j].id = order[j]
                     /\ \A j \in 1..(n - 1) : q[p + j].val = 0
                     /\ q[i].op = "invoke" =>
                           /\ q[p + n].val = 1
                           /\ q[i].id = branches[order[n]].destination_id

\* C37 witness: the run was paused at the boundary before its second node, whose
\* branch had been taken, was resumed, and then invoked that node
C37_Witness ==
    /\ Len(EventsNamed(log, "WorkflowPaused")) = 1
    /\ Len(EventsNamed(log, "WorkflowExecutionStart")) = 2
    /\ Len(Steps) = 3
    /\ Steps[1].op = "invoke"
    /\ Steps[2].op = "eval"
    /\ Steps[3].op = "invoke"
    /\ Steps[3].id # Steps[1].id
    /\ \E i \in DOMAIN log :
          /\ log[i].op = "WorkflowPaused"
          /\ log[i - 1].op = "eval"
          /\ log[i].id = Steps[3].id

\* ------------------------------------------------------------- termination of a call
\* the steps of a call of execute whose collaborators return: the checks at the
\* boundary, the return of the action, the evaluation of a branch, the completion
EngineStep ==
    \/ CheckPaused
    \/ \E d \in {0} \cup Devices : CheckAbort(d)
    \/ ActionTriggers
    \/ \E t \in [DOMAIN branches -> BOOLEAN] : ActionReturns(t)
    \/ EvalBranch
    \/ NoBranch
    \/ Complete

\* __execute lines 165-175 once the history holds MaxSteps invocations: the loop
\* has no bound of its own, so the node is invoked as before; the invocation is
\* no longer entered in the history
InvokeBeyond(d) ==
    /\ pc = "check_abort"
    /\ ~_abort
    /\ Len(Invocations(log)) >= MaxSteps
    /\ instances' = IF d # 0 THEN instances \cup {d} ELSE instances
    /\ pc' = "in_action_beyond"
    /\ UNCHANGED <<workflowVars, abort_at, _is_paused, _abort, _accumulator, _execution_id,
                   _executing_action, start_arguments, last_result, truth, pending,
                   outcome, log>>

\* __execute lines 175-183 and __actions lines 195-202 for such an invocation:
\* the action returns, its result is written, and get_branch tries the branches
\* of the node in order; t is what their expressions evaluate to
ContinueBeyond(t) ==
    /\ pc = "in_action_beyond"
    /\ start_arguments' = FALSE
    /\ last_result' = ResultOf(log)
    /\ _accumulator' = AccPut(_accumulator, Uuid(_executing_action), ResultOf(log))
    /\ truth' = t
    /\ pending' = <<>>
    /\ LET order == BranchOrder(branches, _executing_action)
           taken == {j \in DOMAIN order : t[order[j]]}
           first == CHOOSE j \in taken : \A i \in taken : j <= i
           next == IF taken = {} THEN NoneId
                   ELSE get_action_by_id(branches[order[first]].destination_id)
       IN IF next # NoneId
          THEN /\ _executing_action' = next
               /\ pc' = "check_paused"
          ELSE /\ pc' = "complete"
               /\ UNCHANGED _executing_action
    /\ UNCHANGED <<workflowVars, abort_at, _is_paused, _abort, _execution_id, instances,
                   outcome, log>>

\* the steps of a call beyond the invocations the history holds
BeyondStep ==
    \/ \E d \in {0} \cup Devices : InvokeBeyond(d)
    \/ \E t \in [DOMAIN branches -> BOOLEAN] : ContinueBeyond(t)

NextLive == Next \/ BeyondStep

\* a call that has been started takes its next step: every invocation of an
\* action and every evaluation of a condition returns
SpecLive == Init /\ [][NextLive]_vars /\ WF_vars(EngineStep \/ BeyondStep)

\* the nodes reached from the nodes of S in one to k branches
RECURSIVE After(_, _)
After(S, k) ==
    IF k = 0 THEN {}
    ELSE LET T == {branches[b].destination_id :
                      b \in {x \in DOMAIN branches : branches[x].source_id \in S}}
         IN T \cup After(T, k - 1)

\* no node is reached from itself
Acyclic == \A n \in ActionIds : n \notin After({n}, NumActions)

\* C35 as stated: every call of execute on a valid workflow in which each action
\* invocation and each condition evaluation returns ends, and it returns
\* Completed, Aborted, Paused or Triggered; on a workflow whose branch graph is
\* acyclic it invokes each node at most once.
C35_Terminates ==
    /\ (pc \notin {"idle", "returned", "raised"}) ~> (pc \in {"returned", "raised"})
    /\ []((pc = "returned" /\ is_valid) =>
              outcome.kind \in {"Result", "Aborted", "Paused", "Triggered"})
    /\ [](Acyclic => \A n \in ActionIds :
                        Len(SelectSeq(log, LAMBDA e : e.op = "invoke" /\ e.id = n)) <= 1)

====
